---- MODULE Spec2Model ----
(***************************************************************************)
(* tasklog (tl): a markdown task log mutated by read-modify-write cycles   *)
(* under a cross-process advisory lock, with a separate counter store and  *)
(* whole-file atomic replacement.                                          *)
(*                                                                         *)
(* A log line is kept as the shape of its text, and the three regular      *)
(* expressions of parser.rs are evaluated on that shape:                   *)
(*   hdr    "### <date>"                                                   *)
(*   box    "<indent>- [c] <tag>-<num> <title>[ (<stamp>)]"                *)
(*   bullet "<indent>- [[<stamp>] ]<text>"                                 *)
(*   blank  an empty or whitespace-only line                               *)
(*   prose  any other text starting at column 0                            *)
(* A tag, a title, a note text and a query are sequences of characters; a  *)
(* date or stamp is the day number of the clock that produced it (0: none).*)
(***************************************************************************)
EXTENDS Integers, Sequences, FiniteSets, TLC

\* ------------------------------------------------------------------ bounds
\* processes that may run operations at the same time
NProc == 2
\* operations started in one behaviour
MaxOps == 2
\* days the clock can show
MaxDay == 2
\* a hand-set scan window smaller than the documents of the model
SmallWindow == 2
\* scan_window_lines written by init
DefaultWindow == 5000
\* note_indent written by init
DefaultNoteIndent == 6

Procs == 1..NProc

\* ------------------------------------------------------------- characters
Lower == {"f", "b"}
Digit == {"1"}
Upper == {"F"}

TagF == <<"f">>
TagB == <<"b">>
Tag1F == <<"1", "f">>
TagUp == <<"F">>
TagEmpty == <<>>

\* ------------------------------------------------------------------ lines
Hdr(d) == [k |-> "hdr", date |-> d]
Box(i, dn, tg, n, ti, st) ==
    [k |-> "box", indent |-> i, done |-> dn, tag |-> tg, number |-> n,
     title |-> ti, stamp |-> st]
Bullet(i, st, tx) == [k |-> "bullet", indent |-> i, stamp |-> st, text |-> tx]
Blank == [k |-> "blank"]
Prose == [k |-> "prose"]
\* text that is indented and is not a bullet
ProseAt(i) == [k |-> "prose", indent |-> i]

\* the text matched by the trailing (.+) of TASK_RE: the title and the stamp
TitleText(l) == [title |-> l.title, stamp |-> l.stamp]
TitleNonEmpty(l) == l.title # <<>> \/ l.stamp # 0
\* the text matched by the trailing (.+) of NOTE_RE
NoteText(l) ==
    IF l.k = "bullet" THEN [stamp |-> l.stamp, text |-> l.text, box |-> FALSE]
    ELSE [stamp |-> l.stamp, text |-> l.title, box |-> TRUE]

\* [a-z][a-z0-9]* of TASK_RE
TagRe(tg) ==
    /\ Len(tg) >= 1
    /\ tg[1] \in Lower
    /\ \A j \in 2..Len(tg) : tg[j] \in Lower \cup Digit

\* a plausible slip: the tag is checked with the pattern the parser uses
tag_valid_letter_first(tg) == TagRe(tg)

\* the tag check at the head of add_task
tag_valid(tg) ==
    ~ ( ~(\A j \in 1..Len(tg) : tg[j] \in Lower \cup Digit) \/ Len(tg) = 0 )

is_section_header(l) == l.k = "hdr"

parse_task_line(l) == l.k = "box" /\ TagRe(l.tag) /\ TitleNonEmpty(l)

is_note_line(l) ==
    \/ l.k = "bullet" /\ l.indent > 0 /\ (l.text # <<>> \/ l.stamp # 0)
    \/ l.k = "box" /\ l.indent > 0

\* a plausible slip: a blank line is treated like any other text
line_blank_never(l) == FALSE

\* line.trim().is_empty()
line_blank(l) == l.k = "blank"

\* --------------------------------------------------------------- contents
\* a file content: its lines and whether it ends with a newline
Content(ls, n) == [lines |-> ls, nl |-> n]
EmptyContent == Content(<<>>, FALSE)

Id(tg, n) == [tag |-> tg, number |-> n]
task_id(t) == Id(t.tag, t.number)

NoTask == [none |-> TRUE]

\* the flush of parse_log: the open task goes to the last section, and is
\* dropped when no section has been opened yet
flush(sections, cur) ==
    IF cur = NoTask \/ Len(sections) = 0 THEN sections
    ELSE [sections EXCEPT ![Len(sections)] = Append(@, cur)]

RECURSIVE parse_loop(_, _, _, _, _)
parse_loop(lines, i, sections, cur, date) ==
    IF i > Len(lines) THEN flush(sections, cur)
    ELSE LET l == lines[i] IN
      IF is_section_header(l)
        THEN parse_loop(lines, i + 1, Append(flush(sections, cur), <<>>), NoTask, l.date)
      ELSE IF parse_task_line(l)
        THEN parse_loop(lines, i + 1, flush(sections, cur),
                        [line_number |-> i - 1, indent |-> l.indent, done |-> l.done,
                         tag |-> l.tag, number |-> l.number, title |-> TitleText(l),
                         notes |-> <<>>, date |-> date],
                        date)
      ELSE IF is_note_line(l)
        THEN IF cur # NoTask /\ l.indent > cur.indent
               THEN parse_loop(lines, i + 1, sections,
                               [cur EXCEPT !.notes =
                                  Append(@, [line_number |-> i - 1, text |-> NoteText(l)])],
                               date)
               ELSE parse_loop(lines, i + 1, flush(sections, cur), NoTask, date)
      ELSE IF ~line_blank(l)
        THEN parse_loop(lines, i + 1, flush(sections, cur), NoTask, date)
      ELSE parse_loop(lines, i + 1, sections, cur, date)

\* a plausible slip: line numbers counted from the start of the window
parse_log_relative(content, scan_window) ==
    LET total == Len(content.lines)
        start == IF total > scan_window THEN total - scan_window ELSE 0
    IN parse_loop(SubSeq(content.lines, start + 1, total), 1, <<>>, NoTask, 0)

\* the scan with the window left out: every line of the document is parsed
parse_log_unwindowed(content, scan_window) ==
    parse_loop(content.lines, 1, <<>>, NoTask, 0)

\* parse_log(content, scan_window): line numbers are 0-based and absolute;
\* date 0 is the empty string current_date starts with
parse_log(content, scan_window) ==
    LET total == Len(content.lines)
        start == IF total > scan_window THEN total - scan_window ELSE 0
    IN parse_loop(content.lines, start + 1, <<>>, NoTask, 0)

RECURSIVE Flatten(_)
Flatten(ss) == IF ss = <<>> THEN <<>> ELSE Head(ss) \o Flatten(Tail(ss))

all_tasks(sections) == Flatten(sections)

\* a plausible slip: the first match is returned without counting the others
find_task_first(sections, id) ==
    LET ts == all_tasks(sections)
        found == {j \in 1..Len(ts) : task_id(ts[j]) = id}
    IN IF found = {} THEN [r |-> "notfound"]
       ELSE [r |-> "ok", task |-> ts[CHOOSE j \in found : \A h \in found : j <= h]]

\* find_task: "ok" with the task, "notfound" or "duplicate"
find_task(sections, id) ==
    LET ts == all_tasks(sections)
        found == {j \in 1..Len(ts) : task_id(ts[j]) = id}
    IN IF found = {} THEN [r |-> "notfound"]
       ELSE IF Cardinality(found) = 1
         THEN [r |-> "ok", task |-> ts[CHOOSE j \in found : TRUE]]
       ELSE [r |-> "duplicate"]

\* find_last_section: 0-based line of the last header, -1 for None
find_last_section(content) ==
    LET hs == {j \in 1..Len(content.lines) : is_section_header(content.lines[j])}
    IN IF hs = {} THEN -1 ELSE (CHOOSE j \in hs : \A h \in hs : h <= j) - 1

\* a plausible slip: the section ends right after its header
find_section_end_top(content, section_line) == section_line + 1

\* find_section_end: 0-based line of the next header, or the number of lines
find_section_end(content, section_line) ==
    LET hs == {j \in (section_line + 2)..Len(content.lines) :
                  is_section_header(content.lines[j])}
    IN IF hs = {} THEN Len(content.lines)
       ELSE (CHOOSE j \in hs : \A h \in hs : j <= h) - 1

\* a plausible slip: the header is appended without looking at the last one
ensure_today_section_always(content, today) ==
    Content(content.lines \o <<Blank, Hdr(today)>>, TRUE)

\* ensure_today_section(content) with today_str() = today
ensure_today_section(content, today) ==
    LET last == find_last_section(content) IN
    IF last >= 0 /\ content.lines[last + 1].date = today THEN content
    ELSE Content(content.lines \o <<Blank, Hdr(today)>>, TRUE)

\* get_today_section_text: the lines of the last section dated today
get_today_section_text(content, today) ==
    LET hs == {j \in 1..Len(content.lines) :
                 is_section_header(content.lines[j]) /\ content.lines[j].date = today}
    IN IF hs = {} THEN [r |-> "none"]
       ELSE LET start == (CHOOSE j \in hs : \A h \in hs : h <= j) - 1
                end == find_section_end(content, start)
            IN [r |-> "some", lines |-> SubSeq(content.lines, start + 1, end)]

\* ------------------------------------------------------------------ search
to_lowercase(cs) == [j \in 1..Len(cs) |-> IF cs[j] \in Upper THEN "f" ELSE cs[j]]

contains(hay, needle) ==
    \E j \in 0..(Len(hay) - Len(needle)) :
        \A m \in 1..Len(needle) : hay[j + m] = needle[m]

DigitChars == <<"0", "1", "2", "3", "4", "5", "6", "7", "8", "9">>
RECURSIVE Decimal(_)
Decimal(n) == IF n < 10 THEN <<DigitChars[n + 1]>>
              ELSE Decimal(n \div 10) \o <<DigitChars[(n % 10) + 1]>>

\* the text of a stamp "(dd/mm/yyyy hh:mmPM)" of day d
StampChars(d) == IF d = 0 THEN <<>> ELSE <<"(", "0">> \o Decimal(d) \o <<"/", ")">>

title_chars(t) ==
    t.title.title \o (IF t.title.stamp = 0 THEN <<>>
                      ELSE (IF t.title.title = <<>> THEN <<>> ELSE <<" ">>)
                           \o StampChars(t.title.stamp))

note_chars(n) ==
    IF n.text.box THEN <<"[", "]", " ">> \o n.text.text
    ELSE (IF n.text.stamp = 0 THEN <<>>
          ELSE <<"[">> \o StampChars(n.text.stamp) \o <<"]", " ">>) \o n.text.text

id_chars(t) == t.tag \o <<"-">> \o Decimal(t.number)

task_matches(t, query) ==
    LET q == to_lowercase(query) IN
    \/ contains(to_lowercase(title_chars(t)), q)
    \/ \E j \in 1..Len(t.notes) : contains(to_lowercase(note_chars(t.notes[j])), q)
    \/ contains(to_lowercase(t.tag), q)
    \/ contains(to_lowercase(id_chars(t)), q)

search_tasks(sections, query) ==
    SelectSeq(all_tasks(sections), LAMBDA t : task_matches(t, query))

\* ------------------------------------------------------------ counter store
counter(tags, tg) == IF tg \in DOMAIN tags THEN tags[tg] ELSE 0
put(tags, tg, v) == [t \in DOMAIN tags \cup {tg} |-> IF t = tg THEN v ELSE tags[t]]

\* State::sync_min: the entry is created at 0 and raised to min when lower
sync_min(tags, tg, min) ==
    LET c == counter(tags, tg) IN put(tags, tg, IF c < min THEN min ELSE c)

\* a plausible slip: one counter shared by all tags
next_id_shared(tags, tg) ==
    LET all == {tags[t] : t \in DOMAIN tags} \cup {0}
    IN put(tags, tg, (CHOOSE n \in all : \A m \in all : m <= n) + 1)

\* State::next_id: the entry is created at 0 and incremented; the new value
\* is the number returned
next_id(tags, tg) == put(tags, tg, counter(tags, tg) + 1)

\* max_in_log of add_task: the highest number of the tag among parsed tasks
max_in_log(sections, tg) ==
    LET ts == all_tasks(sections)
        ns == {ts[j].number : j \in {m \in 1..Len(ts) : ts[m].tag = tg}}
    IN IF ns = {} THEN 0 ELSE CHOOSE n \in ns : \A m \in ns : m <= n

\* ------------------------------------------------- the document mutations
\* a plausible slip: the line at idx is overwritten
insert_at_over(seq, idx, x) == SubSeq(seq, 1, idx) \o <<x>> \o SubSeq(seq, idx + 2, Len(seq))

\* Vec::insert(idx, x) with a 0-based idx <= len
insert_at(seq, idx, x) == SubSeq(seq, 1, idx) \o <<x>> \o SubSeq(seq, idx + 1, Len(seq))

\* lines.join("\n") followed by the push of a missing final newline
join_lines(ls) == IF ls = <<>> THEN Content(<<Blank>>, TRUE) ELSE Content(ls, TRUE)

\* the pure part of add_task after the reads: the new document, the new
\* counter map and the number allocated
add_task_compute(content0, scan_window, tags, tg, title, today) ==
    LET content == ensure_today_section(content0, today)
        sections == parse_log(content, scan_window)
        synced == sync_min(tags, tg, max_in_log(sections, tg))
        tags2 == next_id(synced, tg)
        number == tags2[tg]
        section_line == find_last_section(content)
        section_end == find_section_end(content, section_line)
        task_line == Box(0, FALSE, tg, number, title, 0)
        lines == IF section_end >= Len(content.lines)
                   THEN Append(content.lines, task_line)
                   ELSE insert_at(content.lines, section_end, task_line)
    IN [section |-> section_line >= 0, content |-> join_lines(lines),
        tags |-> tags2, number |-> number]

\* a plausible slip: the done check is left out
complete_task_unchecked(content, scan_window, id, today) ==
    LET f == find_task(parse_log(content, scan_window), id) IN
    IF f.r # "ok" THEN [r |-> f.r]
    ELSE LET ln == f.task.line_number + 1
             lines == [content.lines EXCEPT ![ln] = [@ EXCEPT !.done = TRUE, !.stamp = today]]
         IN [r |-> "ok", content |-> join_lines(lines)]

\* the pure part of complete_task: lookup, the done check, and the rewrite of
\* the task's line (the first "[ ]" of a task line is its checkbox; the stamp
\* goes to the end of the line)
complete_task_compute(content, scan_window, id, today) ==
    LET f == find_task(parse_log(content, scan_window), id) IN
    IF f.r # "ok" THEN [r |-> f.r]
    ELSE IF f.task.done THEN [r |-> "already_done"]
    ELSE LET ln == f.task.line_number + 1
             lines == [content.lines EXCEPT ![ln] = [@ EXCEPT !.done = TRUE, !.stamp = today]]
         IN [r |-> "ok", content |-> join_lines(lines)]

\* the pure part of add_note
add_note_compute(content, scan_window, note_indent, id, text, today) ==
    LET f == find_task(parse_log(content, scan_window), id) IN
    IF f.r # "ok" THEN [r |-> f.r]
    ELSE LET insert_after == IF f.task.notes = <<>> THEN f.task.line_number
                             ELSE f.task.notes[Len(f.task.notes)].line_number
             note_line == Bullet(note_indent, today, text)
         IN [r |-> "ok",
             content |-> join_lines(insert_at(content.lines, insert_after + 1, note_line))]

\* content.trim().is_empty()
trim_is_empty(content) == \A j \in 1..Len(content.lines) : line_blank(content.lines[j])

\* ------------------------------------------------------------------- files
NoFile == [exists |-> FALSE]
CfgFile(lp, ni, sw) ==
    [exists |-> TRUE, log_path |-> lp, note_indent |-> ni, scan_window_lines |-> sw]
StFile(tags) == [exists |-> TRUE, tags |-> tags]
LogFile(content) == [exists |-> TRUE, content |-> content]

\* Config::default and Config::with_log_path
DefaultLogPath == "main"
AltLogPath == "alt"
Paths == {DefaultLogPath, AltLogPath}
config_default == CfgFile(DefaultLogPath, DefaultNoteIndent, DefaultWindow)
with_log_path(lp) == CfgFile(lp, DefaultNoteIndent, DefaultWindow)

\* a plausible slip: the override replaces the configuration by a new one
set_log_path_fresh(c, lp) == with_log_path(lp)

\* init on an existing configuration with an override: config.log_path = p
set_log_path(c, lp) == [c EXCEPT !.log_path = lp]

NoTags == << >>

\* ------------------------------------------------------------------- state
VARIABLES
    today,      \* the local date of the clock
    dir,        \* ~/.config/tl exists
    lockFile,   \* ~/.config/tl/lock exists
    cfgFile,    \* config.toml
    stateFile,  \* state.json
    logFile,    \* the log file of each path
    held,       \* the processes whose open lock file holds the exclusive flock
    pc,         \* where each process is in its operation
    op,         \* the operation each process runs, with its arguments
    cfg,        \* the Config value of each process
    st,         \* the State value (tag -> counter) of each process
    buf,        \* the document each process has read or is about to write
    aw,         \* the atomic_write each process is in
    res,        \* the result each process returns
    nops,       \* operations started so far
    committed,  \* history: the documents renamed over each log path so far
    okAdds,     \* history: successful add_task calls per tag
    issued,     \* history: the ids successful add_task calls returned
    okDone,     \* history: successful complete_task calls per id
    log0,       \* history: the log files of the initial state
    tags0       \* history: the counter store of the initial state

vars == <<today, dir, lockFile, cfgFile, stateFile, logFile, held, pc, op, cfg, st,
          buf, aw, res, nops, committed, okAdds, issued, okDone, log0, tags0>>

files == <<dir, lockFile, cfgFile, stateFile, logFile>>
hist == <<committed, okAdds, issued, okDone, log0, tags0>>

NoOp == [name |-> "none", tag |-> <<>>, title |-> <<>>, id |-> Id(<<>>, 0),
         text |-> <<>>, query |-> <<>>, log |-> ""]
NoAw == [target |-> "none", path |-> "", cont |-> ""]
NoRes == [r |-> "none"]
Err(e) == [r |-> "err", e |-> e]

Mutators == {"add_task", "complete_task", "add_note"}
Readers == {"get_today", "search"}
ValidTags == {TagF, TagB, Tag1F}

\* ----------------------------------------------------------- initial states
TaskLine(tg, n, dn) == Box(0, dn, tg, n, <<"f">>, IF dn THEN 1 ELSE 0)

FreshLog == Content(<<Hdr(1)>>, TRUE)
\* a task added by hand under a header
HandLog == Content(<<Hdr(1), TaskLine(TagF, 2, FALSE)>>, TRUE)
\* a task added by hand above the first header
HeadlessLog == Content(<<TaskLine(TagF, 2, FALSE), Hdr(1)>>, TRUE)
\* a task with a note, followed by prose: the task is outside a window of 2 lines
LongLog == Content(<<Hdr(1), TaskLine(TagF, 1, TRUE), Bullet(DefaultNoteIndent, 1, <<"b">>),
                     Prose, Prose>>, TRUE)
\* an unchecked task, a checked one and an id that two lines carry
MixedLog == Content(<<Hdr(1), TaskLine(TagF, 1, TRUE), TaskLine(TagF, 2, FALSE),
                      TaskLine(TagF, 3, FALSE), TaskLine(TagF, 3, FALSE)>>, TRUE)
\* a log whose last line has no newline
OpenLog == Content(<<Hdr(1), TaskLine(TagF, 1, FALSE)>>, FALSE)

\* an indented task with two notes of different indents, a blank line and a
\* second task
NotedLog == Content(<<Hdr(1), Box(2, FALSE, TagF, 1, <<"f">>, 0),
                      Bullet(DefaultNoteIndent, 1, <<"b">>), Bullet(4, 0, <<"f">>),
                      Blank, TaskLine(TagF, 2, FALSE)>>, TRUE)
\* a task at the end of a log that starts with prose
TailLog == Content(<<Prose, Prose, Hdr(1), TaskLine(TagF, 1, FALSE)>>, TRUE)

\* a task indented as deep as notes are written, with a deeper note
DeepLog == Content(<<Hdr(1), Box(DefaultNoteIndent, FALSE, TagF, 1, <<"f">>, 0),
                     Bullet(DefaultNoteIndent + 2, 1, <<"b">>)>>, TRUE)

\* prose without a header and without a final newline
ProseLog == Content(<<Prose>>, FALSE)
\* sections out of date order, each with a task
SwappedLog == Content(<<Hdr(2), TaskLine(TagF, 1, FALSE), Hdr(1), TaskLine(TagF, 2, FALSE)>>,
                      TRUE)

Installed(content, tags, window) ==
    /\ dir = TRUE /\ lockFile = TRUE
    /\ cfgFile = CfgFile(DefaultLogPath, DefaultNoteIndent, window)
    /\ stateFile = StFile(tags)
    /\ logFile = [q \in Paths |-> IF q = DefaultLogPath THEN LogFile(content) ELSE NoFile]

NotInstalled ==
    /\ dir = FALSE /\ lockFile = FALSE
    /\ cfgFile = NoFile /\ stateFile = NoFile
    /\ logFile = [q \in Paths |-> NoFile]

InitRest ==
    /\ today = 1
    /\ held = {}
    /\ pc = [p \in Procs |-> "idle"]
    /\ op = [p \in Procs |-> NoOp]
    /\ cfg = [p \in Procs |-> NoFile]
    /\ st = [p \in Procs |-> NoTags]
    /\ buf = [p \in Procs |-> EmptyContent]
    /\ aw = [p \in Procs |-> NoAw]
    /\ res = [p \in Procs |-> NoRes]
    /\ nops = 0
    /\ committed = [q \in Paths |-> IF logFile[q].exists THEN {logFile[q].content} ELSE {}]
    /\ okAdds = [t \in ValidTags |-> 0]
    /\ issued = {}
    /\ okDone = << >>
    /\ log0 = logFile
    /\ tags0 = IF stateFile.exists THEN stateFile.tags ELSE NoTags

\* ------------------------------------------------------------------- steps
\* a plausible slip: the guard is forgotten and its file stays open and locked
leak_guard(p) == held' = held

\* the end of the operation's scope: the result is handed back and the guard,
\* if the operation holds one, is dropped (Drop for FileLock)
drop_guard(p) == held' = held \ {p}

at(p, l) == pc[p] = l
goto(p, l) == pc' = [pc EXCEPT ![p] = l]
fail(p, e) == /\ pc' = [pc EXCEPT ![p] = "ret"]
              /\ res' = [res EXCEPT ![p] = Err(e)]

\* the clock passes midnight
Tick ==
    /\ today < MaxDay
    /\ today' = today + 1
    /\ UNCHANGED <<files, held, pc, op, cfg, st, buf, aw, res, nops, hist>>

\* an operation begins in a process of its own: idle processes are all alike,
\* so the new one is the first idle one
begin(p, o, first, r) ==
    /\ at(p, "idle")
    /\ \A q \in Procs : q < p => ~at(q, "idle")
    /\ nops' = nops + 1
    /\ op' = [op EXCEPT ![p] = o]
    /\ pc' = [pc EXCEPT ![p] = first]
    /\ res' = [res EXCEPT ![p] = r]
    /\ buf' = [buf EXCEPT ![p] = EmptyContent]
    /\ UNCHANGED <<today, files, held, cfg, st, aw, hist>>

\* add_task(tag, title): the tag check comes before the lock
StartAddTask(p, tg, title) ==
    begin(p, [NoOp EXCEPT !.name = "add_task", !.tag = tg, !.title = title],
          IF tag_valid(tg) THEN "lock_open" ELSE "ret",
          IF tag_valid(tg) THEN NoRes ELSE Err("parse"))

StartCompleteTask(p, id) ==
    begin(p, [NoOp EXCEPT !.name = "complete_task", !.id = id], "lock_open", NoRes)

StartAddNote(p, id, text) ==
    begin(p, [NoOp EXCEPT !.name = "add_note", !.id = id, !.text = text], "lock_open", NoRes)

\* get_today() and search(query) take no lock
StartGetToday(p) == begin(p, [NoOp EXCEPT !.name = "get_today"], "load_cfg", NoRes)
StartSearch(p, q) == begin(p, [NoOp EXCEPT !.name = "search", !.query = q], "load_cfg", NoRes)

\* init(log_path) takes no lock either; "" is None
StartInit(p, lp) == begin(p, [NoOp EXCEPT !.name = "init", !.log = lp], "i_dir", NoRes)

\* FileLock::acquire, the open: the lock file is created when missing; the
\* open fails when the directory does not exist
LockOpen(p) ==
    /\ at(p, "lock_open")
    /\ IF dir THEN /\ lockFile' = TRUE
                   /\ goto(p, "lock_wait")
                   /\ UNCHANGED res
              ELSE /\ fail(p, "io")
                   /\ UNCHANGED lockFile
    /\ UNCHANGED <<today, dir, cfgFile, stateFile, logFile, held, op, cfg, st, buf, aw,
                   nops, hist>>

\* a plausible slip: a shared lock, which any number of processes may hold
flock_shared(p) == TRUE

\* flock(LOCK_EX) on a file description of its own is granted when no other
\* file description holds the lock
flock_grantable(p) == held = {}

\* FileLock::acquire, lock_exclusive: blocks until granted
LockExclusive(p) ==
    /\ at(p, "lock_wait")
    /\ flock_grantable(p)
    /\ held' = held \cup {p}
    /\ goto(p, "load_cfg")
    /\ UNCHANGED <<today, files, op, cfg, st, buf, aw, res, nops, hist>>

\* Config::load
LoadConfig(p) ==
    /\ at(p, "load_cfg")
    /\ IF cfgFile.exists
         THEN /\ cfg' = [cfg EXCEPT ![p] = cfgFile]
              /\ goto(p, IF op[p].name = "add_task" THEN "load_state" ELSE "read_log")
              /\ UNCHANGED res
         ELSE /\ fail(p, "not_initialized")
              /\ UNCHANGED cfg
    /\ UNCHANGED <<today, files, held, op, st, buf, aw, nops, hist>>

\* State::load
LoadState(p) ==
    /\ at(p, "load_state")
    /\ IF stateFile.exists
         THEN /\ st' = [st EXCEPT ![p] = stateFile.tags]
              /\ goto(p, "read_log")
              /\ UNCHANGED res
         ELSE /\ fail(p, "not_initialized")
              /\ UNCHANGED st
    /\ UNCHANGED <<today, files, held, op, cfg, buf, aw, nops, hist>>

\* the start of atomic_write(target, data): data is the process's cfg, st or
\* buf; cont is where the caller goes on after the rename
write(p, target, path, cont) ==
    /\ aw' = [aw EXCEPT ![p] = [target |-> target, path |-> path, cont |-> cont]]
    /\ goto(p, "aw_create")

\* add_task: read_to_string(log) and everything up to the first write
AddTaskRead(p) ==
    /\ at(p, "read_log") /\ op[p].name = "add_task"
    /\ LET f == logFile[cfg[p].log_path] IN
       IF ~f.exists
         THEN /\ fail(p, "io")
              /\ UNCHANGED <<st, buf, aw>>
         ELSE LET c == add_task_compute(f.content, cfg[p].scan_window_lines, st[p],
                                        op[p].tag, op[p].title, today) IN
              IF ~c.section
                THEN /\ fail(p, "no_section")
                     /\ UNCHANGED <<st, buf, aw>>
                ELSE /\ st' = [st EXCEPT ![p] = c.tags]
                     /\ buf' = [buf EXCEPT ![p] = c.content]
                     /\ res' = [res EXCEPT ![p] =
                                  [r |-> "ok", id |-> Id(op[p].tag, c.number)]]
                     /\ write(p, "log", cfg[p].log_path, "state")
    /\ UNCHANGED <<today, files, held, op, cfg, nops, hist>>

\* complete_task: read_to_string(log) and everything up to the write
CompleteTaskRead(p) ==
    /\ at(p, "read_log") /\ op[p].name = "complete_task"
    /\ LET f == logFile[cfg[p].log_path] IN
       IF ~f.exists
         THEN /\ fail(p, "io")
              /\ UNCHANGED <<buf, aw>>
         ELSE LET c == complete_task_compute(f.content, cfg[p].scan_window_lines,
                                             op[p].id, today) IN
              IF c.r # "ok"
                THEN /\ fail(p, c.r)
                     /\ UNCHANGED <<buf, aw>>
                ELSE /\ buf' = [buf EXCEPT ![p] = c.content]
                     /\ res' = [res EXCEPT ![p] = [r |-> "ok"]]
                     /\ write(p, "log", cfg[p].log_path, "ret")
    /\ UNCHANGED <<today, files, held, op, cfg, st, nops, hist>>

\* add_note: read_to_string(log) and everything up to the write
AddNoteRead(p) ==
    /\ at(p, "read_log") /\ op[p].name = "add_note"
    /\ LET f == logFile[cfg[p].log_path] IN
       IF ~f.exists
         THEN /\ fail(p, "io")
              /\ UNCHANGED <<buf, aw>>
         ELSE LET c == add_note_compute(f.content, cfg[p].scan_window_lines,
                                        cfg[p].note_indent, op[p].id, op[p].text, today) IN
              IF c.r # "ok"
                THEN /\ fail(p, c.r)
                     /\ UNCHANGED <<buf, aw>>
                ELSE /\ buf' = [buf EXCEPT ![p] = c.content]
                     /\ res' = [res EXCEPT ![p] = [r |-> "ok"]]
                     /\ write(p, "log", cfg[p].log_path, "ret")
    /\ UNCHANGED <<today, files, held, op, cfg, st, nops, hist>>

\* get_today: the exists() check, read_to_string and the extraction.  The
\* read is of one file version: a rename replaces the directory entry, never
\* the bytes of the file that is open.
GetTodayRead(p) ==
    /\ at(p, "read_log") /\ op[p].name = "get_today"
    /\ LET f == logFile[cfg[p].log_path] IN
       IF ~f.exists
         THEN /\ fail(p, "not_initialized")
              /\ UNCHANGED buf
         ELSE LET t == get_today_section_text(f.content, today) IN
              /\ buf' = [buf EXCEPT ![p] = f.content]
              /\ res' = [res EXCEPT ![p] =
                           IF t.r = "none" THEN [r |-> "err", e |-> "no_today", read |-> TRUE]
                           ELSE [r |-> "ok", read |-> TRUE, text |-> t.lines]]
              /\ goto(p, "ret")
    /\ UNCHANGED <<today, files, held, op, cfg, st, aw, nops, hist>>

\* search: the exists() check, read_to_string, parse_log and search_tasks
SearchRead(p) ==
    /\ at(p, "read_log") /\ op[p].name = "search"
    /\ LET f == logFile[cfg[p].log_path] IN
       IF ~f.exists
         THEN /\ fail(p, "not_initialized")
              /\ UNCHANGED buf
         ELSE /\ buf' = [buf EXCEPT ![p] = f.content]
              /\ res' = [res EXCEPT ![p] =
                           [r |-> "ok", read |-> TRUE,
                            tasks |-> search_tasks(
                                parse_log(f.content, cfg[p].scan_window_lines),
                                op[p].query)]]
              /\ goto(p, "ret")
    /\ UNCHANGED <<today, files, held, op, cfg, st, aw, nops, hist>>

\* ------------------------------------------------------------ atomic_write
\* the value atomic_write was given for its target
data_of(p) ==
    CASE aw[p].target = "config" -> cfg[p]
      [] aw[p].target = "state" -> StFile(st[p])
      [] aw[p].target = "log" -> LogFile(buf[p])

\* the files after `value` replaced the target
store(target, path, value) ==
    /\ cfgFile' = IF target = "config" THEN value ELSE cfgFile
    /\ stateFile' = IF target = "state" THEN value ELSE stateFile
    /\ logFile' = IF target = "log" THEN [logFile EXCEPT ![path] = value] ELSE logFile

\* a plausible slip: the target itself is opened for writing, which truncates it
create_in_place(p) ==
    IF aw[p].target = "log" THEN store("log", aw[p].path, LogFile(EmptyContent))
    ELSE IF aw[p].target = "state" THEN store("state", "", StFile(NoTags))
    ELSE UNCHANGED <<cfgFile, stateFile, logFile>>

\* NamedTempFile::new_in(dir): a new file beside the target; the target is
\* not touched
tmp_created(p) == UNCHANGED <<cfgFile, stateFile, logFile>>

AwCreate(p) ==
    /\ at(p, "aw_create")
    /\ tmp_created(p)
    /\ goto(p, "aw_write")
    /\ UNCHANGED <<today, dir, lockFile, held, op, cfg, st, buf, aw, res, nops, hist>>

\* tmp.write_all(data): bytes go to the temporary file
AwWrite(p) ==
    /\ at(p, "aw_write")
    /\ goto(p, "aw_sync")
    /\ UNCHANGED <<today, files, held, op, cfg, st, buf, aw, res, nops, hist>>

\* tmp.as_file().sync_all()
AwSync(p) ==
    /\ at(p, "aw_sync")
    /\ goto(p, "aw_rename")
    /\ UNCHANGED <<today, files, held, op, cfg, st, buf, aw, res, nops, hist>>

\* tmp.persist(path): the rename over the target; then the caller goes on:
\* add_task with state.save(), init with its next check, the others return
AwRename(p) ==
    /\ at(p, "aw_rename")
    /\ store(aw[p].target, aw[p].path, data_of(p))
    /\ committed' = IF aw[p].target = "log"
                      THEN [committed EXCEPT ![aw[p].path] = @ \cup {buf[p]}]
                      ELSE committed
    /\ IF aw[p].cont = "state"
         THEN write(p, "state", "", "ret")
         ELSE /\ goto(p, aw[p].cont)
              /\ aw' = [aw EXCEPT ![p] = NoAw]
    /\ UNCHANGED <<today, dir, lockFile, held, op, cfg, st, buf, res, nops, okAdds, issued,
                   okDone, log0, tags0>>

\* -------------------------------------------------------------------- init
\* Config::ensure_dir
InitDir(p) ==
    /\ at(p, "i_dir")
    /\ dir' = TRUE
    /\ goto(p, "i_cfg")
    /\ UNCHANGED <<today, lockFile, cfgFile, stateFile, logFile, held, op, cfg, st, buf,
                   aw, res, nops, hist>>

\* the config_path.exists() check and what follows it: a new configuration,
\* an updated log path, or nothing
InitConfig(p) ==
    /\ at(p, "i_cfg")
    /\ IF ~cfgFile.exists
         THEN /\ cfg' = [cfg EXCEPT ![p] = IF op[p].log # "" THEN with_log_path(op[p].log)
                                           ELSE config_default]
              /\ write(p, "config", "", "i_state")
         ELSE IF op[p].log # ""
           THEN /\ cfg' = [cfg EXCEPT ![p] = set_log_path(cfgFile, op[p].log)]
                /\ write(p, "config", "", "i_state")
           ELSE /\ goto(p, "i_state")
                /\ UNCHANGED <<cfg, aw>>
    /\ UNCHANGED <<today, files, held, op, st, buf, res, nops, hist>>

\* the state_path.exists() check and State::default().save()
InitState(p) ==
    /\ at(p, "i_state")
    /\ IF ~stateFile.exists
         THEN /\ st' = [st EXCEPT ![p] = NoTags]
              /\ write(p, "state", "", "i_load")
         ELSE /\ goto(p, "i_load")
              /\ UNCHANGED <<st, aw>>
    /\ UNCHANGED <<today, files, held, op, cfg, buf, res, nops, hist>>

\* the Config::load of init
InitLoad(p) ==
    /\ at(p, "i_load")
    /\ IF cfgFile.exists
         THEN /\ cfg' = [cfg EXCEPT ![p] = cfgFile]
              /\ goto(p, "i_log")
              /\ UNCHANGED res
         ELSE /\ fail(p, "not_initialized")
              /\ UNCHANGED cfg
    /\ UNCHANGED <<today, files, held, op, st, buf, aw, nops, hist>>

\* the resolved.exists() check, the read and the choice of what to write
InitLog(p) ==
    /\ at(p, "i_log")
    /\ res' = [res EXCEPT ![p] = [r |-> "ok"]]
    /\ LET f == logFile[cfg[p].log_path] IN
       IF ~f.exists \/ trim_is_empty(f.content)
         THEN /\ buf' = [buf EXCEPT ![p] = Content(<<Hdr(today)>>, TRUE)]
              /\ write(p, "log", cfg[p].log_path, "ret")
         ELSE LET updated == ensure_today_section(f.content, today) IN
              IF updated # f.content
                THEN /\ buf' = [buf EXCEPT ![p] = updated]
                     /\ write(p, "log", cfg[p].log_path, "ret")
                ELSE /\ goto(p, "ret")
                     /\ UNCHANGED <<buf, aw>>
    /\ UNCHANGED <<today, files, held, op, cfg, st, nops, hist>>

\* ------------------------------------------------------------- the way out
\* the operation returns: the caller has the result, the locals go, and with
\* them the lock guard
Return(p) ==
    /\ at(p, "ret")
    /\ goto(p, "idle")
    /\ drop_guard(p)
    /\ IF op[p].name = "add_task" /\ res[p].r = "ok"
         THEN /\ okAdds' = put(okAdds, op[p].tag, counter(okAdds, op[p].tag) + 1)
              /\ issued' = issued \cup {res[p].id}
         ELSE UNCHANGED <<okAdds, issued>>
    /\ okDone' = IF op[p].name = "complete_task" /\ res[p].r = "ok"
                   THEN put(okDone, op[p].id, counter(okDone, op[p].id) + 1)
                   ELSE okDone
    /\ op' = [op EXCEPT ![p] = NoOp]
    /\ res' = [res EXCEPT ![p] = NoRes]
    /\ cfg' = [cfg EXCEPT ![p] = NoFile]
    /\ st' = [st EXCEPT ![p] = NoTags]
    /\ buf' = [buf EXCEPT ![p] = EmptyContent]
    /\ aw' = [aw EXCEPT ![p] = NoAw]
    /\ UNCHANGED <<today, files, nops, committed, log0, tags0>>

\* the steps that are system calls
FsSteps == {"lock_open", "lock_wait", "load_cfg", "load_state", "read_log",
            "aw_create", "aw_write", "aw_sync", "aw_rename",
            "i_dir", "i_cfg", "i_state", "i_load", "i_log"}

\* a system call fails (or a file does not parse): the error is returned with `?`
Fail(p) ==
    /\ pc[p] \in FsSteps
    /\ fail(p, IF at(p, "lock_wait") THEN "lock" ELSE "io")
    /\ UNCHANGED <<today, files, held, op, cfg, st, buf, aw, nops, hist>>

\* the process dies where it stands: the kernel closes its files, which
\* releases its flock; nothing it had in memory is written
Crash(p) ==
    /\ pc[p] # "idle"
    /\ goto(p, "idle")
    /\ held' = held \ {p}
    /\ op' = [op EXCEPT ![p] = NoOp]
    /\ res' = [res EXCEPT ![p] = NoRes]
    /\ cfg' = [cfg EXCEPT ![p] = NoFile]
    /\ st' = [st EXCEPT ![p] = NoTags]
    /\ buf' = [buf EXCEPT ![p] = EmptyContent]
    /\ aw' = [aw EXCEPT ![p] = NoAw]
    /\ UNCHANGED <<today, files, nops, hist>>

Tags1(tg, n) == [t \in {tg} |-> n]

\* the steps of add_task, complete_task and add_note
MutatorStep(p) ==
    \/ LockOpen(p) \/ LockExclusive(p) \/ LoadConfig(p) \/ LoadState(p)
    \/ AddTaskRead(p) \/ CompleteTaskRead(p) \/ AddNoteRead(p)
    \/ AwCreate(p) \/ AwWrite(p) \/ AwSync(p) \/ AwRename(p)
    \/ Return(p)

\* the steps only init takes
InitStep(p) ==
    \/ InitDir(p) \/ InitConfig(p) \/ InitState(p) \/ InitLoad(p) \/ InitLog(p)

\* the steps only get_today and search take
ReaderStep(p) == GetTodayRead(p) \/ SearchRead(p)

\* -------------------------------------------------------------------- Spec
\* Several processes run mutating operations at the same time, from an
\* installation that does not exist yet or from one with a hand-edited log;
\* system calls may fail and processes may die.  The operations all run on
\* one day.
Init ==
    /\ \/ NotInstalled
       \/ Installed(MixedLog, Tags1(TagF, 3), DefaultWindow)
    /\ InitRest

Start(p) ==
    /\ nops < MaxOps
    /\ \/ StartInit(p, "")
       \/ StartAddTask(p, TagF, <<"f">>)
       \/ \E n \in {1, 3} : StartCompleteTask(p, Id(TagF, n))
       \/ StartAddNote(p, Id(TagF, 9), <<"b">>)

Next ==
    \/ \E p \in Procs : Start(p)
    \/ \E p \in Procs : MutatorStep(p)
    \/ \E p \in Procs : InitStep(p)
    \/ \E p \in Procs : Fail(p)
    \/ \E p \in Procs : Crash(p)

Spec == Init /\ [][Next]_vars

\* ---------------------------------------------------------------- SpecRead
\* Readers run beside the mutating operations.
StartRead(p) ==
    /\ nops < MaxOps
    /\ \/ StartInit(p, "")
       \/ StartAddTask(p, TagF, <<"f">>)
       \/ StartCompleteTask(p, Id(TagF, 2))
       \/ StartAddNote(p, Id(TagF, 2), <<"b">>)
       \/ StartGetToday(p)
       \/ StartSearch(p, <<"F">>)

NextRead ==
    \/ Tick
    \/ \E p \in Procs : StartRead(p)
    \/ \E p \in Procs : MutatorStep(p)
    \/ \E p \in Procs : InitStep(p)
    \/ \E p \in Procs : ReaderStep(p)

SpecRead == Init /\ [][NextRead]_vars

\* ---------------------------------------------------------------- SpecRace
\* init runs beside other operations on an installation that does not exist
\* yet; no system call fails and no process dies.
MaxRaceOps == 3

InitRace == NotInstalled /\ InitRest

StartRace(p) ==
    /\ nops < MaxRaceOps
    /\ \/ StartInit(p, "")
       \/ StartAddTask(p, TagF, <<"f">>)
       \/ StartCompleteTask(p, Id(TagF, 1))
       \/ StartAddNote(p, Id(TagF, 1), <<"b">>)

NextRace ==
    \/ \E p \in Procs : StartRace(p)
    \/ \E p \in Procs : MutatorStep(p)
    \/ \E p \in Procs : InitStep(p)

SpecRace == InitRace /\ [][NextRace]_vars

\* ----------------------------------------------------------------- SpecSeq
\* One operation at a time, on an installation that is new or whose log was
\* edited by hand; no system call fails.
MaxSeqOps == 3

SeqLogs == {FreshLog, HandLog, HeadlessLog, LongLog, OpenLog}

InitSeq ==
    /\ \/ NotInstalled
       \/ \E c \in SeqLogs : \E t \in {NoTags, Tags1(TagF, 1)} :
          \E w \in {SmallWindow, DefaultWindow} : Installed(c, t, w)
    /\ InitRest

StartSeq(p) ==
    /\ nops < MaxSeqOps
    /\ \A q \in Procs : at(q, "idle")
    /\ \/ StartInit(p, "")
       \/ \E tg \in {TagF, TagB, Tag1F, TagUp} : StartAddTask(p, tg, <<"f">>)
       \/ StartCompleteTask(p, Id(TagF, 1))
       \/ StartAddNote(p, Id(TagF, 1), <<"b">>)

NextSeq ==
    \/ Tick
    \/ \E p \in Procs : StartSeq(p)
    \/ \E p \in Procs : MutatorStep(p)
    \/ \E p \in Procs : InitStep(p)

SpecSeq == InitSeq /\ [][NextSeq]_vars

\* ----------------------------------------------------------------- SpecAdd
\* NProc calls of add_task for one tag, by processes that run at the same
\* time, on an installed log; no system call fails.
AddSteps(p) ==
    \/ LockOpen(p) \/ LockExclusive(p) \/ LoadConfig(p) \/ LoadState(p)
    \/ AddTaskRead(p)
    \/ AwCreate(p) \/ AwWrite(p) \/ AwSync(p) \/ AwRename(p)
    \/ Return(p)

InitAdd ==
    /\ \E c \in SeqLogs : \E t \in {NoTags, Tags1(TagF, 1), Tags1(TagF, 3)} :
       \E w \in {SmallWindow, DefaultWindow} : Installed(c, t, w)
    /\ InitRest

NextAdd ==
    \/ Tick
    \/ \E p \in Procs : nops < NProc /\ StartAddTask(p, TagF, <<"f">>)
    \/ \E p \in Procs : AddSteps(p)

SpecAdd == InitAdd /\ [][NextAdd]_vars

\* ================================================================== claims
\* the lines of a document that have the shape of a task line
task_lines(content) == {j \in 1..Len(content.lines) : parse_task_line(content.lines[j])}
line_id(l) == Id(l.tag, l.number)

\* the ids of the task lines of a document are pairwise distinct
distinct_ids(content) ==
    \A i, j \in task_lines(content) :
        line_id(content.lines[i]) = line_id(content.lines[j]) => i = j

all_distinct(logs) == \A q \in Paths : logs[q].exists => distinct_ids(logs[q].content)

\* the highest number a task line of the tag carries among the lines `from`..
max_number(content, from, tg) ==
    LET ns == {content.lines[j].number :
                 j \in {i \in task_lines(content) : i >= from /\ content.lines[i].tag = tg}}
    IN IF ns = {} THEN 0 ELSE CHOOSE n \in ns : \A m \in ns : m <= n

\* C1 (as claimed): if the task ids of the log are pairwise distinct at the
\* start, they are pairwise distinct after any sequence of add_task,
\* complete_task, add_note and init.
C1_IdsStayDistinct == all_distinct(log0) => all_distinct(logFile)

\* C2 (as claimed): when the NProc concurrent add_task calls for tag f have all
\* returned, on an installation whose highest f number in log and counter
\* store was m, all succeeded, the ids returned are f-(m+1) .. f-(m+NProc), and
\* the log has exactly one task line for each of them.
C2_ConcurrentAddsGapless ==
    (nops = NProc /\ \A p \in Procs : at(p, "idle")) =>
        LET first == log0[DefaultLogPath].content
            m0 == max_number(first, 1, TagF)
            m == IF counter(tags0, TagF) > m0 THEN counter(tags0, TagF) ELSE m0
            final == logFile[DefaultLogPath].content
        IN /\ okAdds[TagF] = NProc
           /\ issued = {Id(TagF, m + k) : k \in 1..NProc}
           /\ \A k \in 1..NProc :
                Cardinality({j \in task_lines(final) :
                               line_id(final.lines[j]) = Id(TagF, m + k)}) = 1

\* the steps at which an operation reads or writes the configuration, the
\* counter store or the log
FileSteps == {"load_cfg", "load_state", "read_log",
              "aw_create", "aw_write", "aw_sync", "aw_rename",
              "i_cfg", "i_state", "i_load", "i_log"}

\* C3 (as claimed): every read and write of the log, the counter store or the
\* configuration by add_task, complete_task, add_note and init happens while
\* the process holds the lock.
C3_FilesOnlyUnderLock ==
    \A p \in Procs :
        (op[p].name \in Mutators \cup {"init"} /\ pc[p] \in FileSteps) => p \in held

\* C4: at most one process holds the lock, and a process that is inside the
\* critical section of add_task, complete_task or add_note holds it: no second
\* acquire returns while the first guard is alive.
C4_OneLockHolder ==
    /\ \A p, q \in held : p = q
    /\ \A p \in Procs : (op[p].name \in Mutators /\ pc[p] \in FileSteps) => p \in held

\* a process holds the lock and another one is blocked in acquire
C4_Witness ==
    \E p, q \in Procs : p # q /\ p \in held /\ at(p, "aw_rename") /\ at(q, "lock_wait")

\* C5: whenever add_task, complete_task or add_note returns, with a result or
\* with any error, the process does not hold the lock afterwards.
C5_LockFreeAfterReturn ==
    [][\A p \in Procs :
         (at(p, "ret") /\ op[p].name \in Mutators /\ pc'[p] = "idle") => p \notin held']_vars

\* an operation is about to return an error while it holds the lock and
\* another process waits for it
C5_Witness ==
    \E p, q \in Procs :
        /\ at(p, "ret") /\ p \in held /\ res[p].r = "err"
        /\ res[p].e \in {"already_done", "duplicate", "notfound", "not_initialized", "io"}
        /\ at(q, "lock_wait")

\* C6: one step of any process, a crash included, leaves each target file as
\* it was or replaces it by the complete data of an atomic_write that was at
\* its rename step; no other step of atomic_write changes the target.
C6_TargetOldOrNew ==
    [][/\ cfgFile' # cfgFile =>
            \E p \in Procs : /\ at(p, "aw_rename") /\ pc'[p] # "aw_rename"
                             /\ aw[p].target = "config" /\ cfgFile' = cfg[p]
       /\ stateFile' # stateFile =>
            \E p \in Procs : /\ at(p, "aw_rename") /\ pc'[p] # "aw_rename"
                             /\ aw[p].target = "state" /\ stateFile' = StFile(st[p])
       /\ \A q \in Paths : logFile'[q] # logFile[q] =>
            \E p \in Procs : /\ at(p, "aw_rename") /\ pc'[p] # "aw_rename"
                             /\ aw[p].target = "log" /\ aw[p].path = q
                             /\ logFile'[q] = LogFile(buf[p])]_vars

\* an atomic_write has created, written and synced its temporary file and the
\* log still has its previous content
C6_Witness ==
    \E p \in Procs :
        /\ at(p, "aw_rename") /\ aw[p].target = "log"
        /\ logFile[aw[p].path].exists
        /\ logFile[aw[p].path].content # buf[p]

\* C7: the log content a get_today or a search has read is a document that
\* was committed whole: the initial one, or one that init, add_task,
\* complete_task or add_note renamed over the log.
C7_ReadersSeeCommitted ==
    \A p \in Procs :
        (op[p].name \in Readers /\ at(p, "ret") /\ "read" \in DOMAIN res[p])
            => buf[p] \in committed[cfg[p].log_path]

\* a reader has read the log while a writer was between creating its
\* temporary file and renaming it
C7_Witness ==
    \E p, q \in Procs :
        /\ op[p].name \in Readers /\ at(p, "ret") /\ "read" \in DOMAIN res[p]
        /\ pc[q] \in {"aw_write", "aw_sync", "aw_rename"} /\ aw[q].target = "log"
        /\ buf[p] # buf[q]

\* the installation was new at the start: no counter and no task line
fresh0 ==
    /\ tags0 = NoTags
    /\ \A q \in Paths : log0[q].exists => task_lines(log0[q].content) = {}

\* C8: from a new installation, the k-th successful add_task of a tag returns
\* number k, whatever was done for other tags and whatever complete_task and
\* add_note did in between.
C8_KthAddReturnsK ==
    fresh0 =>
        \A p \in Procs :
            (op[p].name = "add_task" /\ at(p, "ret") /\ res[p].r = "ok")
                => res[p].id = Id(op[p].tag, okAdds[op[p].tag] + 1)

\* the second add_task of a tag returns 2 after an add_task of another tag
C8_Witness ==
    /\ fresh0
    /\ \E p \in Procs : /\ op[p].name = "add_task" /\ at(p, "ret") /\ res[p].r = "ok"
                        /\ res[p].id = Id(TagF, 2)
    /\ okAdds[TagB] = 1

\* C9 (as claimed): when the scanned window holds task lines of the tag with
\* maximum number m and the stored counter is below m or absent, add_task
\* returns m+1 and persists m+1; the window is the one add_task scans, the
\* last scan_window_lines lines after ensure_today_section.
C9_ReconcilesToWindowMax ==
    [][\A p \in Procs :
         (at(p, "read_log") /\ op[p].name = "add_task" /\ pc'[p] = "aw_create") =>
            LET scanned == ensure_today_section(logFile[cfg[p].log_path].content, today)
                total == Len(scanned.lines)
                w == cfg[p].scan_window_lines
                from == IF total > w THEN total - w + 1 ELSE 1
                m == max_number(scanned, from, op[p].tag)
            IN (m > 0 /\ counter(st[p], op[p].tag) < m) =>
                  /\ res'[p].id = Id(op[p].tag, m + 1)
                  /\ st'[p][op[p].tag] = m + 1]_vars

\* C10 (as claimed): the persisted counter of a tag is never lowered and a tag
\* is never removed from the counter store.
C10_CountersNeverLowered ==
    [][stateFile.exists =>
         /\ stateFile'.exists
         /\ \A t \in DOMAIN stateFile.tags :
              t \in DOMAIN stateFile'.tags /\ stateFile'.tags[t] >= stateFile.tags[t]]_vars

\* ---------------------------------------------------------------- SpecDone
\* Calls of complete_task for the id f-1, by processes that run at the same
\* time, on logs where f-1 is unchecked, checked, hidden or absent; no system
\* call fails.
MaxDoneOps == 3

DoneLogs == {OpenLog, HandLog, LongLog, MixedLog, NotedLog, TailLog}

DoneSteps(p) ==
    \/ LockOpen(p) \/ LockExclusive(p) \/ LoadConfig(p)
    \/ CompleteTaskRead(p)
    \/ AwCreate(p) \/ AwWrite(p) \/ AwSync(p) \/ AwRename(p)
    \/ Return(p)

InitDone ==
    /\ \E c \in DoneLogs : \E w \in {SmallWindow, DefaultWindow} :
          Installed(c, Tags1(TagF, 3), w)
    /\ InitRest

NextDone ==
    \/ Tick
    \/ \E p \in Procs : nops < MaxDoneOps /\ StartCompleteTask(p, Id(TagF, 1))
    \/ \E p \in Procs : DoneSteps(p)

SpecDone == InitDone /\ [][NextDone]_vars

\* every task line of the document that carries the id is checked, and there
\* is one
all_checked(content, id) ==
    LET js == {j \in task_lines(content) : line_id(content.lines[j]) = id}
    IN js # {} /\ \A j \in js : content.lines[j].done

\* complete_task can find the id in the document, and its box is unchecked
open_task(content, scan_window, id) ==
    LET f == find_task(parse_log(content, scan_window), id)
    IN f.r = "ok" /\ ~f.task.done

\* a complete_task that reads a log where its task is checked goes straight
\* to an error return and the step changes no file
C11_CheckedIsRefused ==
    [][\A p \in Procs :
         ( /\ at(p, "read_log") /\ op[p].name = "complete_task" /\ pc'[p] # "read_log"
           /\ logFile[cfg[p].log_path].exists
           /\ all_checked(logFile[cfg[p].log_path].content, op[p].id) )
         => /\ pc'[p] = "ret" /\ res'[p].r = "err"
            /\ files' = files]_vars

\* when two or more complete_task calls on an id that was an unchecked task
\* have all returned, one of them succeeded
C11_OneSucceeds ==
    []( ( /\ \A p \in Procs : at(p, "idle")
          /\ nops >= 2
          /\ open_task(log0[DefaultLogPath].content, cfgFile.scan_window_lines,
                       Id(TagF, 1)) )
        => counter(okDone, Id(TagF, 1)) = 1 )

\* C11: complete_task on a task whose box is already checked returns an error
\* and leaves the log and the counter store unchanged; of two or more
\* complete_task calls on the id of an unchecked task, sequential or
\* concurrent, exactly one succeeds and the others fail.
C11_RecompleteFails == C11_CheckedIsRefused /\ C11_OneSucceeds

\* the second of two concurrent calls is about to return "already done" after
\* the first one succeeded
C11_Witness ==
    /\ counter(okDone, Id(TagF, 1)) = 1
    /\ \E p \in Procs : /\ at(p, "ret") /\ op[p].name = "complete_task"
                        /\ res[p] = Err("already_done")

\* the task of the id as complete_task and add_note look it up
the_task(content, scan_window, id) == find_task(parse_log(content, scan_window), id).task

MaxNoteOps == 3

NoteLogs == {OpenLog, LongLog, NotedLog, TailLog, DeepLog}

NoteSteps(p) ==
    \/ LockOpen(p) \/ LockExclusive(p) \/ LoadConfig(p)
    \/ AddNoteRead(p)
    \/ AwCreate(p) \/ AwWrite(p) \/ AwSync(p) \/ AwRename(p)
    \/ Return(p)

InitNote ==
    /\ \E c \in NoteLogs : \E w \in {SmallWindow, DefaultWindow} :
          Installed(c, Tags1(TagF, 3), w)
    /\ InitRest

NextNote ==
    \/ Tick
    \/ \E p \in Procs : \E tx \in {<<"b">>, <<"F", "b">>} :
          nops < MaxNoteOps /\ StartAddNote(p, Id(TagF, 1), tx)
    \/ \E p \in Procs : NoteSteps(p)

SpecNote == InitNote /\ [][NextNote]_vars

\* the texts of the notes of a task, in order
note_texts(t) == [j \in 1..Len(t.notes) |-> t.notes[j].text]

\* C13 (as claimed): when a successful add_note(id, text) replaces the log,
\* the task of the id in the new log has its earlier notes, unchanged and in
\* order, followed by one new note that carries the text (hence k successive
\* calls leave the prior notes followed by the k new ones in call order).
C13_NoteAppended ==
    [][\A p \in Procs :
         (at(p, "aw_rename") /\ op[p].name = "add_note" /\ pc'[p] = "ret") =>
            LET w == cfg[p].scan_window_lines
                old == logFile[cfg[p].log_path].content
                new == logFile'[cfg[p].log_path].content
                f == find_task(parse_log(new, w), op[p].id)
            IN /\ f.r = "ok"
               /\ \E d \in 1..today :
                     note_texts(f.task) =
                        Append(note_texts(the_task(old, w, op[p].id)),
                               [stamp |-> d, text |-> op[p].text, box |-> FALSE])]_vars

\* ---------------------------------------------------------------- SpecPair
\* add_task followed immediately by add_note on the id it returned, for the
\* tags add_task accepts and for hand-set note indents; no system call fails.
PairSteps(p) == AddSteps(p) \/ AddNoteRead(p)

InitPair ==
    /\ dir = TRUE /\ lockFile = TRUE
    /\ \E ni \in {0, 2, DefaultNoteIndent} :
          cfgFile = CfgFile(DefaultLogPath, ni, DefaultWindow)
    /\ \E t \in {NoTags, Tags1(TagF, 3)} : stateFile = StFile(t)
    /\ \E c \in {FreshLog, HandLog, OpenLog, NotedLog} :
          logFile = [q \in Paths |-> IF q = DefaultLogPath THEN LogFile(c) ELSE NoFile]
    /\ InitRest

NextPair ==
    \/ Tick
    \/ \E p \in Procs : \E tg \in {TagF, TagB, Tag1F} :
          nops = 0 /\ StartAddTask(p, tg, <<"f">>)
    \/ \E p \in Procs : \E id \in issued :
          /\ nops = 1 /\ \A q \in Procs : at(q, "idle")
          /\ StartAddNote(p, id, <<"b">>)
    \/ \E p \in Procs : PairSteps(p)

SpecPair == InitPair /\ [][NextPair]_vars

\* C14 (as claimed): an add_note on the id an add_task has just returned
\* succeeds, and when it returns the parsed log has exactly one task of that
\* id, whose notes are exactly one note, which carries the text; for every
\* tag add_task accepts and every note indent of the configuration.
C14_AddThenNote ==
    \A p \in Procs :
        (at(p, "ret") /\ op[p].name = "add_note") =>
            /\ res[p].r = "ok"
            /\ LET f == find_task(parse_log(logFile[cfg[p].log_path].content,
                                            cfg[p].scan_window_lines), op[p].id)
               IN /\ f.r = "ok"
                  /\ Len(f.task.notes) = 1
                  /\ ~f.task.notes[1].text.box
                  /\ f.task.notes[1].text.text = op[p].text

\* --------------------------------------------------------------- SpecToday
\* add_task on logs that are empty, have no header, have no final newline or
\* have a last header of another day, by processes that run at the same time;
\* no system call fails.
TodayLogs == {EmptyContent, FreshLog, OpenLog, HandLog, ProseLog, SwappedLog, NotedLog}

InitToday ==
    /\ \E c \in TodayLogs : \E w \in {SmallWindow, DefaultWindow} :
          Installed(c, Tags1(TagF, 3), w)
    /\ InitRest

NextToday ==
    \/ Tick
    \/ \E p \in Procs : \E tg \in {TagF, TagB} :
          nops < NProc /\ StartAddTask(p, tg, <<"f">>)
    \/ \E p \in Procs : AddSteps(p)

SpecToday == InitToday /\ [][NextToday]_vars

\* the date of the last header of a document, 0 when it has none
last_date(content) ==
    IF find_last_section(content) < 0 THEN 0
    ELSE content.lines[find_last_section(content) + 1].date

\* C15: the document a successful add_task writes is the document it read
\* with lines added at its end only; its last line is the new task line, its
\* last header is dated today, and no header follows the new line, so the new
\* line is in the most recent section after every line that section had; when
\* the last header read was not dated today, the last header is new and the
\* task line directly follows it.
C15_TaskAtEndOfToday ==
    [][\A p \in Procs :
         (at(p, "read_log") /\ op[p].name = "add_task" /\ pc'[p] = "aw_create") =>
            LET old == logFile[cfg[p].log_path].content
                new == buf'[p]
                n == Len(new.lines)
                k == Len(old.lines)
            IN /\ n > k
               /\ SubSeq(new.lines, 1, k) = old.lines
               /\ new.lines[n] = Box(0, FALSE, op[p].tag, res'[p].id.number, op[p].title, 0)
               /\ find_last_section(new) >= 0
               /\ last_date(new) = today
               /\ IF last_date(old) = today
                    THEN /\ n = k + 1
                         /\ find_last_section(new) = find_last_section(old)
                    ELSE /\ find_last_section(new) = n - 2
                         /\ find_last_section(new) >= k]_vars

\* an add_task has read a log whose last section, of an earlier day, has a
\* task, and is about to write the new header and the new task
C15_Witness ==
    \E p \in Procs :
        /\ at(p, "aw_create") /\ op[p].name = "add_task"
        /\ logFile[cfg[p].log_path].content = HandLog
        /\ Len(buf[p].lines) = 5
        /\ buf[p].lines[4] = Hdr(2)

\* C16 (as claimed): when add_task appends a today header, the document it
\* writes is the old lines (a missing final newline added), then one blank
\* line if the old document is not empty and none if it is empty, then the
\* header, then the task line.
C16_BlankOnlyIfNonEmpty ==
    [][\A p \in Procs :
         ( /\ at(p, "read_log") /\ op[p].name = "add_task" /\ pc'[p] = "aw_create"
           /\ last_date(logFile[cfg[p].log_path].content) # today ) =>
            LET old == logFile[cfg[p].log_path].content
                new == buf'[p]
            IN /\ new.nl
               /\ new.lines =
                    old.lines \o (IF old = EmptyContent THEN <<>> ELSE <<Blank>>)
                      \o <<Hdr(today),
                           Box(0, FALSE, op[p].tag, res'[p].id.number, op[p].title, 0)>>]_vars

\* ----------------------------------------------------------------- SpecTag
\* add_task with every tag of up to MaxTagLen characters, valid or not, started
\* while another add_task is running; no system call fails.
MaxTagLen == 2

TagChars == Lower \cup Digit \cup Upper \cup {"-"}
TagInputs == UNION {[1..n -> TagChars] : n \in 0..MaxTagLen}

InitTag == Installed(FreshLog, NoTags, DefaultWindow) /\ InitRest

NextTag ==
    \/ \E p \in Procs : nops = 0 /\ StartAddTask(p, TagF, <<"f">>)
    \/ \E p \in Procs : \E tg \in TagInputs : nops = 1 /\ StartAddTask(p, tg, <<"f">>)
    \/ \E p \in Procs : AddSteps(p)

SpecTag == InitTag /\ [][NextTag]_vars

\* the tag is not empty and made only of a-z and 0-9
lowercase_alphanumeric(tg) == tg # <<>> /\ \A j \in DOMAIN tg : tg[j] \in Lower \cup Digit

\* an add_task whose tag is empty or has another character is at its error
\* return and holds no lock
C17_BadTagHoldsNothing ==
    [](\A p \in Procs :
         (op[p].name = "add_task" /\ ~lowercase_alphanumeric(op[p].tag)) =>
            /\ at(p, "ret") /\ res[p] = Err("parse")
            /\ p \notin held)

\* the call of add_task: a bad tag is refused in the step of the call, which
\* touches no file and no lock; a good tag goes on to acquire the lock
C17_TagChecked ==
    [][\A p \in Procs :
         (at(p, "idle") /\ op'[p].name = "add_task") =>
            IF lowercase_alphanumeric(op'[p].tag)
              THEN pc'[p] = "lock_open" /\ res'[p] = NoRes
              ELSE /\ pc'[p] = "ret" /\ res'[p] = Err("parse")
                   /\ files' = files /\ held' = held]_vars

\* C17: add_task with an empty tag or a tag with a character other than a-z
\* and 0-9 fails with the validation error before the lock is acquired and
\* leaves the log and the counter store unchanged; every non-empty tag made
\* only of a-z and 0-9 passes validation.
C17_TagValidation == C17_BadTagHoldsNothing /\ C17_TagChecked

\* a tag with an upper-case letter is refused while another add_task holds
\* the lock
C17_Witness ==
    \E p, q \in Procs :
        /\ at(p, "ret") /\ op[p].tag = <<"f", "F">> /\ res[p] = Err("parse")
        /\ q \in held /\ at(q, "aw_rename")

\* --------------------------------------------------------------- SpecEntry
\* The entry points in front of add_task, add_note and search: the commands
\* of main.rs, the key handlers of the interactive UI and the tools of the
\* protocol adapter, each with empty and non-empty input.

\* cmd_add: an empty title is refused before writer::add_task is called
cmd_add(p, tg, title) ==
    IF title = <<>>
      THEN begin(p, [NoOp EXCEPT !.name = "add_task", !.tag = tg, !.title = title],
                 "ret", Err("other"))
      ELSE StartAddTask(p, tg, title)

\* cmd_note: an empty text is refused before writer::add_note is called
cmd_note(p, id, text) ==
    IF text = <<>>
      THEN begin(p, [NoOp EXCEPT !.name = "add_note", !.id = id, !.text = text],
                 "ret", Err("other"))
      ELSE StartAddNote(p, id, text)

\* cmd_search: an empty query is refused before writer::search is called
cmd_search(p, q) ==
    IF q = <<>>
      THEN begin(p, [NoOp EXCEPT !.name = "search", !.query = q], "ret", Err("other"))
      ELSE StartSearch(p, q)

\* handle_add_title_key, Enter: an empty input is refused with a status message
handle_add_title_key(p, tg, title) ==
    IF title = <<>>
      THEN begin(p, [NoOp EXCEPT !.name = "add_task", !.tag = tg, !.title = title],
                 "ret", Err("other"))
      ELSE StartAddTask(p, tg, title)

\* handle_note_input_key, Enter: an empty input is refused with a status message
handle_note_input_key(p, id, text) ==
    IF text = <<>>
      THEN begin(p, [NoOp EXCEPT !.name = "add_note", !.id = id, !.text = text],
                 "ret", Err("other"))
      ELSE StartAddNote(p, id, text)

\* the tools of TlMcpServer hand their parameters to the writer as they are
create_task(p, tg, title) == StartAddTask(p, tg, title)
mcp_add_note(p, id, text) == StartAddNote(p, id, text)
mcp_search_tasks(p, q) == StartSearch(p, q)

EntrySteps(p) == PairSteps(p) \/ SearchRead(p)

InitEntry == Installed(HandLog, Tags1(TagF, 2), DefaultWindow) /\ InitRest

NextEntry ==
    \/ \E p \in Procs : \E ti \in {<<>>, <<"f">>} :
          nops < NProc /\ cmd_add(p, TagF, ti)
    \/ \E p \in Procs : \E tx \in {<<>>, <<"b">>} :
          nops < NProc /\ cmd_note(p, Id(TagF, 2), tx)
    \/ \E p \in Procs : \E q \in {<<>>, <<"F">>} :
          nops < NProc /\ cmd_search(p, q)
    \/ \E p \in Procs : \E ti \in {<<>>, <<"f">>} :
          nops < NProc /\ handle_add_title_key(p, TagF, ti)
    \/ \E p \in Procs : \E tx \in {<<>>, <<"b">>} :
          nops < NProc /\ handle_note_input_key(p, Id(TagF, 2), tx)
    \/ \E p \in Procs : \E ti \in {<<>>, <<"f">>} :
          nops < NProc /\ create_task(p, TagF, ti)
    \/ \E p \in Procs : \E tx \in {<<>>, <<"b">>} :
          nops < NProc /\ mcp_add_note(p, Id(TagF, 2), tx)
    \/ \E p \in Procs : \E q \in {<<>>, <<"F">>} :
          nops < NProc /\ mcp_search_tasks(p, q)
    \/ \E p \in Procs : EntrySteps(p)

SpecEntry == InitEntry /\ [][NextEntry]_vars

\* the operation has an empty title, an empty note text or an empty query
empty_input(o) ==
    \/ o.name = "add_task" /\ o.title = <<>>
    \/ o.name = "add_note" /\ o.text = <<>>
    \/ o.name = "search" /\ o.query = <<>>

\* C18 (as claimed): an add_task with an empty title, an add_note with an
\* empty text and a search with an empty query are refused with an error in
\* the step of the call, whichever entry point received them, and an
\* operation with such an input never gets to read or write a file.
C18_EmptyInputRefused ==
    \A p \in Procs :
        empty_input(op[p]) => /\ at(p, "ret") /\ res[p].r = "err"
                              /\ res[p].e \in {"other", "parse"}

\* ------------------------------------------------------------- SpecMissing
\* add_task, complete_task, add_note, get_today and search on installations
\* of which any part may be missing: the directory, the lock file, the
\* configuration, the counter store, the log; no system call fails otherwise.
InitMissing ==
    /\ dir \in BOOLEAN
    /\ lockFile \in BOOLEAN /\ (lockFile => dir)
    /\ cfgFile \in {NoFile, config_default} /\ (cfgFile.exists => dir)
    /\ stateFile \in {NoFile, StFile(Tags1(TagF, 2))} /\ (stateFile.exists => dir)
    /\ \E f \in {NoFile, LogFile(HandLog)} :
          /\ f.exists => dir
          /\ logFile = [q \in Paths |-> IF q = DefaultLogPath THEN f ELSE NoFile]
    /\ InitRest

StartMissing(p) ==
    /\ nops < NProc
    /\ \/ StartAddTask(p, TagF, <<"f">>)
       \/ StartCompleteTask(p, Id(TagF, 2))
       \/ StartAddNote(p, Id(TagF, 2), <<"b">>)
       \/ StartGetToday(p)
       \/ StartSearch(p, <<"f">>)

NextMissing ==
    \/ \E p \in Procs : StartMissing(p)
    \/ \E p \in Procs : MutatorStep(p)
    \/ \E p \in Procs : ReaderStep(p)

SpecMissing == InitMissing /\ [][NextMissing]_vars

\* the configuration, the counter store or the log file is missing
missing ==
    \/ ~cfgFile.exists
    \/ ~stateFile.exists
    \/ ~logFile[IF cfgFile.exists THEN cfgFile.log_path ELSE DefaultLogPath].exists

\* with a part missing, whatever returns returns the not-initialized error
C19_MissingIsNotInitialized ==
    [](missing =>
         \A p \in Procs :
            (at(p, "ret") /\ op[p].name \in Mutators \cup Readers)
               => res[p] = Err("not_initialized"))

\* with a part missing, no step creates or modifies a file
C19_MissingTouchesNothing == [][missing => files' = files]_vars

\* C19 (as claimed): when the configuration, the counter store or the log
\* file is missing, each of add_task, complete_task, add_note, get_today and
\* search fails with the not-initialized error and creates or modifies no
\* file.
C19_NotInitialized == C19_MissingIsNotInitialized /\ C19_MissingTouchesNothing

\* ------------------------------------------------------------ init, again
\* the installation is complete and the last header of its log is dated today
initialized_today ==
    /\ dir /\ cfgFile.exists /\ stateFile.exists
    /\ logFile[cfgFile.log_path].exists
    /\ last_date(logFile[cfgFile.log_path].content) = today

\* the checks of an init without override find nothing to do on an
\* installation that is initialized for today: no file changes and no write
\* is started
C20_SecondInitIdle ==
    [][\A p \in Procs :
         ( /\ op[p].name = "init" /\ op[p].log = ""
           /\ pc[p] \in {"i_dir", "i_cfg", "i_state", "i_load", "i_log"}
           /\ pc'[p] # pc[p]
           /\ initialized_today )
         => files' = files /\ pc'[p] # "aw_create"]_vars

\* what init writes never lowers or drops a counter of the counter store, and
\* keeps every line of a log that is not blank, in place
C20_InitKeepsData ==
    [][\A p \in Procs :
         (op[p].name = "init" /\ at(p, "aw_rename") /\ pc'[p] # "aw_rename") =>
            /\ stateFile.exists =>
                 \A t \in DOMAIN stateFile.tags :
                    t \in DOMAIN stateFile'.tags /\ stateFile'.tags[t] >= stateFile.tags[t]
            /\ \A q \in Paths :
                 (logFile[q].exists /\ ~trim_is_empty(logFile[q].content)) =>
                    LET old == logFile[q].content.lines
                        new == logFile'[q].content.lines
                    IN Len(new) >= Len(old) /\ SubSeq(new, 1, Len(old)) = old]_vars

\* C20 (as claimed): init without an override on an installation that is
\* already initialized, on the same date, leaves configuration, counter store
\* and log unchanged; and in every case init never lowers or clears an
\* existing counter and never removes or alters an existing log line.
C20_InitIdempotent == C20_SecondInitIdle /\ C20_InitKeepsData

\* ------------------------------------------------------------ SpecOverride
\* One init, with or without a log override, on an installation that has a
\* configuration with hand-set values; the counter store and the log of the
\* new path may be missing; no system call fails.
InitOverride ==
    /\ dir = TRUE /\ lockFile = TRUE
    /\ \E ni \in {2, DefaultNoteIndent} : \E w \in {SmallWindow, DefaultWindow} :
          cfgFile = CfgFile(DefaultLogPath, ni, w)
    /\ stateFile \in {NoFile, StFile(NoTags), StFile(Tags1(TagF, 2))}
    /\ \E c \in {HandLog, ProseLog, OpenLog} :
       \E a \in {NoFile, LogFile(NotedLog), LogFile(EmptyContent),
                 LogFile(Content(<<Blank, Blank>>, TRUE))} :
          logFile = [q \in Paths |-> IF q = DefaultLogPath THEN LogFile(c) ELSE a]
    /\ InitRest

OverrideSteps(p) ==
    \/ InitStep(p)
    \/ AwCreate(p) \/ AwWrite(p) \/ AwSync(p) \/ AwRename(p)
    \/ Return(p)

NextOverride ==
    \/ Tick
    \/ \E p \in Procs : \E lp \in {"", DefaultLogPath, AltLogPath} :
          nops = 0 /\ StartInit(p, lp)
    \/ \E p \in Procs : OverrideSteps(p)

SpecOverride == InitOverride /\ [][NextOverride]_vars

\* the counters of the counter store, none when it is missing
counters(f) == IF f.exists THEN f.tags ELSE NoTags

\* what a step of an init with an override leaves alone, `kept` being the log
\* paths it must not touch
override_frame(p, kept) ==
    /\ cfgFile' # cfgFile => cfgFile' = [cfgFile EXCEPT !.log_path = op[p].log]
    /\ counters(stateFile') = counters(stateFile)
    /\ \A q \in kept : logFile'[q] = logFile[q]

\* C21 (as claimed): init with a log override on an installation whose
\* configuration exists changes only the log-path field of the configuration,
\* leaves the counters as they are and does not modify the log file that was
\* configured before.
C21_OverrideFrame ==
    [][\A p \in Procs :
         (op[p].name = "init" /\ op[p].log # "") => override_frame(p, {DefaultLogPath})]_vars

\* C21 (amended): as above, every log file other than the one the override
\* names is left unmodified; the file the override names is brought up to
\* today like any configured log, also when it is the file configured before.
C21_OverrideFrameOther ==
    [][\A p \in Procs :
         (op[p].name = "init" /\ op[p].log # "") =>
            override_frame(p, Paths \ {op[p].log})]_vars

\* an init with an override to another file has rewritten a configuration
\* with hand-set values and created the new log, beside a log with a task
C21_Witness ==
    \E p \in Procs :
        /\ op[p].name = "init" /\ op[p].log = AltLogPath /\ at(p, "ret")
        /\ cfgFile.log_path = AltLogPath /\ cfgFile.note_indent = 2
        /\ logFile[AltLogPath].exists /\ log0[AltLogPath] = NoFile
        /\ logFile[DefaultLogPath] = LogFile(HandLog)

\* the document init decides on at its look at the log: the one it is about
\* to write, or the one it found
C22_LogAfterInit ==
    [][\A p \in Procs :
         (op[p].name = "init" /\ at(p, "i_log") /\ pc'[p] # "i_log") =>
            LET f == logFile[cfg[p].log_path]
                new == IF pc'[p] = "aw_create" THEN buf'[p] ELSE f.content
            IN /\ pc'[p] = "aw_create" \/ f.exists
               /\ last_date(new) = today
               /\ IF ~f.exists \/ trim_is_empty(f.content)
                    THEN new = Content(<<Hdr(today)>>, TRUE)
                    ELSE IF last_date(f.content) = today
                      THEN pc'[p] = "ret" /\ new = f.content
                      ELSE /\ new.lines = f.content.lines \o <<Blank, Hdr(today)>>
                           /\ new.nl]_vars

\* when init returns, the log is that document
C22_LogCommitted ==
    [](\A p \in Procs :
         (op[p].name = "init" /\ at(p, "ret") /\ res[p].r = "ok") =>
            /\ logFile[cfg[p].log_path].exists
            /\ IF buf[p] = EmptyContent
                 THEN logFile[cfg[p].log_path] = log0[cfg[p].log_path]
                 ELSE logFile[cfg[p].log_path].content = buf[p])

\* C22: after init succeeds the log exists and its last header is dated
\* today: a missing or blank log has become exactly one today header line; a
\* log that is not blank keeps all its lines, and a today header (after a
\* blank line) is appended only if its last header is of another date or it
\* has no header.
C22_InitLog == C22_LogAfterInit /\ C22_LogCommitted

\* init has appended a header to a log whose last section, with a task, was
\* of the day before
C22_Witness ==
    \E p \in Procs :
        /\ op[p].name = "init" /\ at(p, "ret") /\ res[p].r = "ok"
        /\ today = 2
        /\ logFile[cfg[p].log_path].content = Content(HandLog.lines \o <<Blank, Hdr(2)>>, TRUE)

\* --------------------------------------------------------------- SpecParse
\* search on every log of a header followed by up to MaxDocLen lines drawn
\* from tasks, notes, blank lines and text at several indents; the window is
\* the default one or shorter than the log.
MaxDocLen == 3

ParseLines ==
    {Hdr(1), Blank, Prose, ProseAt(4),
     Box(0, FALSE, TagF, 1, <<"f">>, 0), Box(2, TRUE, TagB, 1, <<"b">>, 1),
     Box(4, FALSE, Tag1F, 1, <<"f">>, 0),
     Bullet(2, 0, <<"b">>), Bullet(4, 1, <<"F">>)}

ParseDocs ==
    {Content(<<Hdr(1)>> \o ls, TRUE) : ls \in UNION {[1..n -> ParseLines] : n \in 0..MaxDocLen}}

InitParse ==
    /\ \E c \in ParseDocs : \E w \in {SmallWindow, DefaultWindow} :
          Installed(c, NoTags, w)
    /\ InitRest

NextParse ==
    \/ \E p \in Procs : \E q \in {<<>>, <<"F">>, <<"b", "-", "1">>} :
          nops = 0 /\ StartSearch(p, q)
    \/ \E p \in Procs : LoadConfig(p)
    \/ \E p \in Procs : SearchRead(p)
    \/ \E p \in Procs : Return(p)

SpecParse == InitParse /\ [][NextParse]_vars

\* the width of the whitespace a line starts with
indent_of(l) == IF "indent" \in DOMAIN l THEN l.indent ELSE 0

\* the document the installation has and the tasks parse finds in it
the_doc == logFile[DefaultLogPath].content
the_tasks == all_tasks(parse_log(the_doc, cfgFile.scan_window_lines))
note_lines(t) == {t.notes[j].line_number + 1 : j \in 1..Len(t.notes)}

\* C23: the notes of a parsed task are exactly the lines of the
\* contiguous run right after the task line in which every line is indented
\* strictly deeper than the task and is no header.
C23_NotesAreDeeperRun ==
    \A j \in 1..Len(the_tasks) :
        LET t == the_tasks[j]
            ln == t.line_number + 1
            deeper(k) == the_doc.lines[k].k # "hdr" /\ indent_of(the_doc.lines[k]) > t.indent
        IN note_lines(t) =
             {k \in (ln + 1)..Len(the_doc.lines) : \A m \in (ln + 1)..k : deeper(m)}

\* s holds q as a substring when letter case is ignored
fold(cs) == [j \in 1..Len(cs) |-> IF cs[j] = "F" THEN "f" ELSE cs[j]]
substring_ci(s, q) ==
    \E i \in 1..(Len(s) + 1) :
        i + Len(q) - 1 <= Len(s) /\ SubSeq(fold(s), i, i + Len(q) - 1) = fold(q)

\* the query occurs in the task's title, tag or id, or in one of its notes
in_task(t, q) ==
    substring_ci(title_chars(t), q) \/ substring_ci(t.tag, q) \/ substring_ci(id_chars(t), q)
in_notes(t, q) == \E j \in 1..Len(t.notes) : substring_ci(note_chars(t.notes[j]), q)

\* the task a task line of the document stands for, without its notes
task_of_line(content, j) ==
    LET l == content.lines[j]
    IN [line_number |-> j - 1, tag |-> l.tag, number |-> l.number, title |-> TitleText(l)]

\* C25: search(query) returns, each once and in the order of the log, exactly
\* the tasks of the scanned window for which the query is a case-insensitive
\* substring of the title, of a note's text, of the tag or of the id: every
\* returned task is such a task, every task line of the window that matches
\* by title, tag or id is returned, and so is every task with a matching note.
C25_SearchExact ==
    \A p \in Procs :
        (at(p, "ret") /\ op[p].name = "search" /\ res[p].r = "ok") =>
          LET r == res[p].tasks
              q == op[p].query
              w == cfgFile.scan_window_lines
              returned == {r[a].line_number + 1 : a \in 1..Len(r)}
          IN /\ \A a, b \in 1..Len(r) : a < b => r[a].line_number < r[b].line_number
             /\ \A a \in 1..Len(r) :
                   /\ \E j \in 1..Len(the_tasks) : the_tasks[j] = r[a]
                   /\ in_task(r[a], q) \/ in_notes(r[a], q)
             /\ \A j \in task_lines(the_doc) :
                   (j > Len(the_doc.lines) - w /\ in_task(task_of_line(the_doc, j), q))
                     => j \in returned
             /\ \A j \in 1..Len(the_tasks) :
                   in_notes(the_tasks[j], q) => the_tasks[j].line_number + 1 \in returned

\* ---------------------------------------------------------------- SpecFind
\* complete_task and add_note, one call at a time, for the ids f-1 and b-1 on
\* every log of a header followed by up to MaxDocLen lines in which an id
\* occurs never, once or several times, in one section or in two.
FindLines ==
    {Hdr(1), Box(0, FALSE, TagF, 1, <<"f">>, 0), Box(2, TRUE, TagF, 1, <<"b">>, 1),
     Box(0, FALSE, TagB, 1, <<"b">>, 0), Bullet(4, 1, <<"F">>)}

FindDocs ==
    {Content(<<Hdr(1)>> \o ls, TRUE) : ls \in UNION {[1..n -> FindLines] : n \in 0..MaxDocLen}}

FindSteps(p) ==
    \/ LockOpen(p) \/ LockExclusive(p) \/ LoadConfig(p)
    \/ CompleteTaskRead(p) \/ AddNoteRead(p)
    \/ AwCreate(p) \/ AwWrite(p) \/ AwSync(p) \/ AwRename(p)
    \/ Return(p)

InitFind ==
    /\ \E c \in FindDocs : \E w \in {SmallWindow, DefaultWindow} :
          Installed(c, Tags1(TagF, 1), w)
    /\ InitRest

NextFind ==
    \/ \E p \in Procs : \E id \in {Id(TagF, 1), Id(TagB, 1)} :
          nops = 0 /\ StartCompleteTask(p, id)
    \/ \E p \in Procs : \E id \in {Id(TagF, 1), Id(TagB, 1)} :
          nops = 0 /\ StartAddNote(p, id, <<"b">>)
    \/ \E p \in Procs : FindSteps(p)

SpecFind == InitFind /\ [][NextFind]_vars

\* the number of tasks with the id, summed over the sections
RECURSIVE count_id(_, _)
count_id(sections, id) ==
    IF sections = <<>> THEN 0
    ELSE Cardinality({j \in 1..Len(Head(sections)) : task_id(Head(sections)[j]) = id})
         + count_id(Tail(sections), id)

\* process p is taking the step of complete_task or add_note that reads and
\* parses the log
looks_up(p) ==
    /\ at(p, "read_log") /\ op[p].name \in {"complete_task", "add_note"}
    /\ pc'[p] # "read_log"
    /\ logFile[cfg[p].log_path].exists

\* C24: find_task returns not-found when no task of the parsed sections has
\* the id, duplicate when more than one has it, whether in one section or in
\* several, and the one task that has it otherwise; complete_task and
\* add_note report the two errors as find_task returns them.
C24_FindTask ==
    [][\A p \in Procs : looks_up(p) =>
         LET secs == parse_log(logFile[cfg[p].log_path].content, cfg[p].scan_window_lines)
             n == count_id(secs, op[p].id)
             f == find_task(secs, op[p].id)
         IN /\ n = 0 => f.r = "notfound" /\ res'[p] = Err("notfound")
            /\ n > 1 => f.r = "duplicate" /\ res'[p] = Err("duplicate")
            /\ n = 1 => /\ f.r = "ok" /\ task_id(f.task) = op[p].id
                        /\ \E k \in 1..Len(secs) : \E j \in 1..Len(secs[k]) :
                              secs[k][j] = f.task
                        /\ res'[p] \notin {Err("notfound"), Err("duplicate")}]_vars

\* a call is about to return duplicate for an id that two sections hold once
\* each
C24_Witness ==
    \E p \in Procs :
        /\ at(p, "ret") /\ res[p] = Err("duplicate")
        /\ LET secs == parse_log(the_doc, cfgFile.scan_window_lines)
           IN /\ Len(secs) = 2
              /\ count_id(<<secs[1]>>, op[p].id) = 1
              /\ count_id(<<secs[2]>>, op[p].id) = 1

\* the task lines with the id among the trailing scan_window lines
window_task_lines(content, scan_window, id) ==
    {j \in task_lines(content) :
        /\ j > Len(content.lines) - scan_window
        /\ line_id(content.lines[j]) = id}

\* C30: complete_task and add_note fail with not-found when no task line of
\* the scanned window carries the id and with duplicate when more than one
\* does, and a call that fails in either way changes no file: not the log,
\* not the counter store, not the configuration.
C30_LookupErrors ==
    [][\A p \in Procs :
         /\ looks_up(p) =>
              LET f == logFile[cfg[p].log_path].content
                  n == Cardinality(window_task_lines(f, cfg[p].scan_window_lines, op[p].id))
              IN /\ n = 0 => res'[p] = Err("notfound")
                 /\ n > 1 => res'[p] = Err("duplicate")
         /\ ( \/ res[p] \in {Err("notfound"), Err("duplicate")}
              \/ res'[p] \in {Err("notfound"), Err("duplicate")} ) => files' = files]_vars

\* C26: when add_task returns an id, parsing the log it wrote yields exactly
\* one task with that id, unchecked, with the submitted tag and title, no
\* notes and today's date (so that complete_task and add_note find it), for
\* every tag that add_task accepts.
C26_ReturnedIdFindable ==
    \A p \in Procs :
        (at(p, "ret") /\ op[p].name = "add_task" /\ res[p].r = "ok") =>
          LET f == find_task(parse_log(logFile[cfg[p].log_path].content,
                                       cfg[p].scan_window_lines), res[p].id)
          IN /\ f.r = "ok"
             /\ ~f.task.done
             /\ f.task.tag = op[p].tag
             /\ f.task.title = [title |-> op[p].title, stamp |-> 0]
             /\ f.task.notes = <<>>
             /\ f.task.date = today

\* the note lines of a log file, in order
RECURSIVE bullets(_)
bullets(lines) ==
    IF lines = <<>> THEN <<>>
    ELSE (IF Head(lines).k = "bullet" THEN <<Head(lines)>> ELSE <<>>) \o bullets(Tail(lines))

log_lines(f) == IF f.exists THEN f.content.lines ELSE <<>>

\* every returned id still has its task line in the log, checked if a
\* complete_task on it has returned success
C27_TasksKept ==
    [](\A id \in issued :
         \E j \in 1..Len(log_lines(logFile[DefaultLogPath])) :
            LET l == log_lines(logFile[DefaultLogPath])[j]
            IN /\ l.k = "box" /\ l.tag = id.tag /\ l.number = id.number
               /\ counter(okDone, id) > 0 => l.done)

\* no step takes a note line out of the log
C27_NotesKept ==
    [][\A q \in Paths :
         LET old == bullets(log_lines(logFile[q]))
             new == bullets(log_lines(logFile'[q]))
         IN \A n \in {old[j] : j \in 1..Len(old)} :
              Cardinality({j \in 1..Len(old) : old[j] = n})
                <= Cardinality({j \in 1..Len(new) : new[j] = n})]_vars

\* C27: no committed change is lost: once add_task has returned an id, or
\* complete_task or add_note has returned success, the task line, its checked
\* box and its notes stay in the log whatever add_task, complete_task,
\* add_note and init calls of other processes run before, during or after.
C27_NoCommittedChangeLost == C27_TasksKept /\ C27_NotesKept

\* --------------------------------------------------------------- SpecCrash
\* add_task calls for one tag by processes that may die at any step, on an
\* installation whose counter store agrees with its log.
MaxCrashOps == 3

InitCrash ==
    /\ \E w \in {SmallWindow, DefaultWindow} :
          \/ Installed(FreshLog, NoTags, w)
          \/ Installed(OpenLog, Tags1(TagF, 1), w)
    /\ InitRest

NextCrash ==
    \/ \E p \in Procs : nops < MaxCrashOps /\ StartAddTask(p, TagF, <<"f">>)
    \/ \E p \in Procs : AddSteps(p)
    \/ \E p \in Procs : Crash(p)

SpecCrash == InitCrash /\ [][NextCrash]_vars

\* no process that is not running holds the lock
C28_LockFree == [](\A p \in held : ~at(p, "idle"))

\* the log is a document some operation committed whole, or the one the
\* installation started with
C28_LogWhole ==
    [](\A q \in Paths : logFile[q].exists => logFile[q].content \in committed[q])

\* an add_task that returns has an id no earlier add_task returned and that
\* one task line of the log carries: the one it wrote
C28_NextIdFresh ==
    [](\A p \in Procs :
         (at(p, "ret") /\ op[p].name = "add_task" /\ res[p].r = "ok") =>
            /\ res[p].id \notin issued
            /\ LET ls == log_lines(logFile[cfg[p].log_path])
               IN Cardinality({j \in 1..Len(ls) :
                                 /\ ls[j].k = "box" /\ ls[j].tag = res[p].id.tag
                                 /\ ls[j].number = res[p].id.number}) = 1)

\* C28: if a process dies at any point of add_task (before the log write,
\* between the log write and the counter save, or after both) the
\* installation stays usable: the lock is free, the log is at its last
\* committed document, and the next add_task for the tag returns an id that
\* no task line of the log carries and no earlier add_task returned.
C28_CrashSafe == C28_LockFree /\ C28_LogWhole /\ C28_NextIdFresh

\* ---------------------------------------------------------------- SpecLive
\* add_task and complete_task calls by competing processes, any of which may
\* die at any step.  A process that can take a step takes it (the scheduler
\* runs every runnable process), and a process blocked in flock that could be
\* granted the lock again and again is granted it (the kernel wakes the
\* waiters at every release).
MaxLiveOps == 2

LiveSteps(p) ==
    \/ LockOpen(p) \/ LockExclusive(p) \/ LoadConfig(p)
    \/ CompleteTaskRead(p) \/ AddNoteRead(p)
    \/ AwCreate(p) \/ AwWrite(p) \/ AwSync(p) \/ AwRename(p)
    \/ Return(p)

InitLive == Installed(OpenLog, Tags1(TagF, 1), DefaultWindow) /\ InitRest

NextLive ==
    \/ \E p \in Procs : nops < MaxLiveOps /\ StartCompleteTask(p, Id(TagF, 1))
    \/ \E p \in Procs : nops < MaxLiveOps /\ StartAddNote(p, Id(TagF, 1), <<"b">>)
    \/ \E p \in Procs : LiveSteps(p)
    \/ \E p \in Procs : Crash(p)

SpecLive ==
    /\ InitLive /\ [][NextLive]_vars
    /\ \A p \in Procs : WF_vars(LiveSteps(p)) /\ SF_vars(LockExclusive(p))

MaxFrameOps == 2

FrameLogs == {NotedLog, LongLog, TailLog, SwappedLog, OpenLog, ProseLog}

InitFrame ==
    /\ \E c \in FrameLogs : \E w \in {SmallWindow, DefaultWindow} :
          Installed(c, Tags1(TagF, 2), w)
    /\ InitRest

NextFrame ==
    \/ Tick
    \/ \E p \in Procs : nops < MaxFrameOps /\ StartAddTask(p, TagF, <<"f">>)
    \/ \E p \in Procs : nops < MaxFrameOps /\ StartCompleteTask(p, Id(TagF, 1))
    \/ \E p \in Procs : nops < MaxFrameOps /\ StartAddNote(p, Id(TagF, 1), <<"b">>)
    \/ \E p \in Procs : MutatorStep(p)

SpecFrame == InitFrame /\ [][NextFrame]_vars

\* new is old with the lines ins put in at one place
inserted(old, new, ins) ==
    \E i \in 0..Len(old) :
        new = SubSeq(old, 1, i) \o ins \o SubSeq(old, i + 1, Len(old))

\* process p renames its document over the log
commits_log(p) == at(p, "aw_rename") /\ aw[p].target = "log" /\ pc'[p] # "aw_rename"

\* the write of an add_task only puts in the new task line, with a blank line
\* and a header before it or without
C31_AddTaskInserts ==
    [][\A p \in Procs : (commits_log(p) /\ op[p].name = "add_task") =>
         LET old == log_lines(logFile[aw[p].path])
             new == log_lines(logFile'[aw[p].path])
             t == Box(0, FALSE, op[p].tag, res[p].id.number, op[p].title, 0)
         IN \/ inserted(old, new, <<t>>)
            \/ \E d \in 1..MaxDay : inserted(old, new, <<Blank, Hdr(d), t>>)]_vars

\* the write of an add_note only puts in the new note line
C31_AddNoteInserts ==
    [][\A p \in Procs : (commits_log(p) /\ op[p].name = "add_note") =>
         LET old == log_lines(logFile[aw[p].path])
             new == log_lines(logFile'[aw[p].path])
         IN \E d \in 1..MaxDay :
              inserted(old, new, <<Bullet(cfg[p].note_indent, d, op[p].text)>>)]_vars

\* the write of a complete_task rewrites one line, a task line of its id, and
\* changes only its box and its stamp
C31_CompleteRewritesOne ==
    [][\A p \in Procs : (commits_log(p) /\ op[p].name = "complete_task") =>
         LET old == log_lines(logFile[aw[p].path])
             new == log_lines(logFile'[aw[p].path])
         IN /\ Len(new) = Len(old)
            /\ \E j \in 1..Len(old) :
                 /\ \A i \in 1..Len(old) : i # j => new[i] = old[i]
                 /\ old[j].k = "box" /\ line_id(old[j]) = op[p].id
                 /\ \E d \in 1..MaxDay :
                      new[j] = [old[j] EXCEPT !.done = TRUE, !.stamp = d]]_vars

\* no step of a complete_task or an add_note changes the counter store
C31_CounterStoreKept ==
    [][\A p \in Procs :
         (op[p].name \in {"complete_task", "add_note"} /\ pc'[p] # pc[p])
           => stateFile' = stateFile]_vars

header_date(content, j) ==
    LET hs == {h \in 1..(j - 1) : content.lines[h].k = "hdr"}
    IN IF hs = {} THEN 0 ELSE content.lines[CHOOSE h \in hs : \A g \in hs : g <= h].date

\* C32: every line of the scanned window that has the shape of a task line is
\* returned by parse as a task of exactly one section, with the date of the
\* nearest header above it; no task line of the window is dropped, also not
\* one above the first header of the window.
C32_NoTaskLineDropped ==
    LET w == cfgFile.scan_window_lines
        secs == parse_log(the_doc, w)
    IN \A j \in task_lines(the_doc) :
         j > Len(the_doc.lines) - w =>
           /\ Cardinality({k \in 1..Len(secs) :
                             \E m \in 1..Len(secs[k]) : secs[k][m].line_number = j - 1}) = 1
           /\ \A k \in 1..Len(secs) : \A m \in 1..Len(secs[k]) :
                 secs[k][m].line_number = j - 1 =>
                    /\ secs[k][m].date = header_date(the_doc, j)
                    /\ \A n \in 1..Len(secs[k]) :
                          secs[k][n].line_number = j - 1 => n = m

\* C33: for every window size, every task and note parse returns has a
\* line_number that is an index into the lines of the whole document, the
\* line there is the task line (same tag, number and box) or the note line
\* it was made from, and no returned task or note lies above the last
\* `window` lines.
C33_LineNumbersAbsolute ==
    LET n == Len(the_doc.lines) IN
    \A w \in (0..(n + 1)) \cup {cfgFile.scan_window_lines} :
      LET ts == all_tasks(parse_log(the_doc, w)) IN
      \A j \in 1..Len(ts) :
         LET ln == ts[j].line_number + 1 IN
         /\ ln \in 1..n /\ ln > n - w
         /\ the_doc.lines[ln].k = "box"
         /\ the_doc.lines[ln].tag = ts[j].tag
         /\ the_doc.lines[ln].number = ts[j].number
         /\ the_doc.lines[ln].done = ts[j].done
         /\ \A m \in 1..Len(ts[j].notes) :
               LET nn == ts[j].notes[m].line_number + 1 IN
               /\ nn \in 1..n /\ nn > ln
               /\ the_doc.lines[nn].k \in {"bullet", "box"}
               /\ NoteText(the_doc.lines[nn]) = ts[j].notes[m].text

\* search has returned a task from a window that starts below the top of the
\* log
C33_Witness ==
    \E p \in Procs :
        /\ at(p, "ret") /\ op[p].name = "search" /\ res[p].r = "ok"
        /\ cfgFile.scan_window_lines < Len(the_doc.lines)
        /\ Len(res[p].tasks) > 0
        /\ res[p].tasks[1].line_number >= Len(the_doc.lines) - cfgFile.scan_window_lines
        /\ res[p].tasks[1].line_number > 1

\* the line has the form of a task line
task_shaped(l) == l.k = "box" /\ TagRe(l.tag) /\ (l.title # <<>> \/ l.stamp # 0)

\* the line is whitespace, "- " and some text, and is no task line
note_shaped(l) ==
    \/ l.k = "bullet" /\ l.indent > 0 /\ (l.text # <<>> \/ l.stamp # 0)
    \/ l.k = "box" /\ l.indent > 0 /\ ~task_shaped(l)

\* line j lies in the scanned window and has a header above it in the window
under_header(content, scan_window, j) ==
    /\ j > Len(content.lines) - scan_window
    /\ \E h \in 1..(j - 1) :
          h > Len(content.lines) - scan_window /\ content.lines[h].k = "hdr"

MaxAsymOps == 2

AsymLines == {Hdr(1), Hdr(2), Box(0, FALSE, TagF, 1, <<"f">>, 0)}

AsymDocs ==
    {Content(<<first>> \o ls, TRUE) :
        first \in {Hdr(1), Box(0, FALSE, TagF, 1, <<"f">>, 0)},
        ls \in UNION {[1..n -> AsymLines] : n \in 0..MaxDocLen}}

AsymSteps(p) ==
    \/ LockOpen(p) \/ LockExclusive(p) \/ LoadConfig(p)
    \/ GetTodayRead(p) \/ CompleteTaskRead(p) \/ AddNoteRead(p)
    \/ AwCreate(p) \/ AwWrite(p) \/ AwSync(p) \/ AwRename(p)
    \/ Return(p)

InitAsym ==
    /\ \E c \in AsymDocs : \E w \in {SmallWindow, DefaultWindow} :
          Installed(c, Tags1(TagF, 1), w)
    /\ InitRest

NextAsym ==
    \/ \E p \in Procs : nops < MaxAsymOps /\ StartGetToday(p)
    \/ \E p \in Procs : nops < MaxAsymOps /\ StartCompleteTask(p, Id(TagF, 1))
    \/ \E p \in Procs : nops < MaxAsymOps /\ StartAddNote(p, Id(TagF, 1), <<"b">>)
    \/ \E p \in Procs : AsymSteps(p)

SpecAsym == InitAsym /\ [][NextAsym]_vars

\* the ids of the task lines among the lines of a text
shown_ids(text) == {line_id(text[j]) : j \in {m \in 1..Len(text) : task_shaped(text[m])}}

\* the document is no longer than the window and each of its task lines has
\* a header somewhere above it
short_and_headed(content, scan_window) ==
    /\ Len(content.lines) <= scan_window
    /\ \A j \in 1..Len(content.lines) :
          task_shaped(content.lines[j]) =>
             \E h \in 1..(j - 1) : is_section_header(content.lines[h])

\* C35: get_today reads the whole document and the lookups by id only the
\* window.  When the document get_today read is no longer than the window
\* and each of its task lines follows a header, every task line of the text
\* get_today returns has an id that find_task does not report not-found, and
\* complete_task and add_note on such an id do not fail with not-found.
\* Whatever get_today shows, complete_task and add_note fail with not-found
\* on an id that no task line within the window carries.
C35_GetTodayShows ==
    \A p \in Procs :
        (/\ at(p, "ret") /\ op[p].name = "get_today" /\ res[p].r = "ok"
         /\ short_and_headed(buf[p], cfg[p].scan_window_lines)) =>
           \A id \in shown_ids(res[p].text) :
              find_task(parse_log(buf[p], cfg[p].scan_window_lines), id).r # "notfound"

C35_ShownIsFound ==
    [][\A p \in Procs :
         LET c == logFile[cfg[p].log_path].content
             w == cfg[p].scan_window_lines
             t == get_today_section_text(c, today)
         IN (/\ looks_up(p)
             /\ short_and_headed(c, w)
             /\ t.r = "some" /\ op[p].id \in shown_ids(t.lines)) =>
               res'[p] # Err("notfound")]_vars

C35_OutsideWindowNotFound ==
    [][\A p \in Procs :
         LET c == logFile[cfg[p].log_path].content
             w == cfg[p].scan_window_lines
         IN (looks_up(p) /\ window_task_lines(c, w, op[p].id) = {}) =>
               res'[p] = Err("notfound")]_vars

====
